---- MODULE Spec2Model ----
(***************************************************************************)
(* restruct: a format string ("<2h3s`Foo`") is compiled by the derive      *)
(* macro into a codec: per-field OFFSET/ALIGNMENT/SIZE constants, SIZE,    *)
(* FIELDS, pack (tuple -> [u8; SIZE]) and unpack ([u8; SIZE] -> tuple).    *)
(*                                                                         *)
(* Representation.  Option<T> is a sequence of length <= 1.  A Rust tuple  *)
(* and a [u8; n] array are sequences.  Integers are mathematical integers  *)
(* encoded to bytes in two's complement at the width of their type; a      *)
(* float is its IEEE-754 bit pattern (the code transmutes f32/f64 to       *)
(* u32/u64 before any byte conversion).  The tuple that pack transmutes    *)
(* into the byte array is laid out in declaration order (every element has *)
(* alignment 1), as generator.rs lines 20-23 assume.                       *)
(***************************************************************************)
EXTENDS Integers, Sequences, FiniteSets, TLC

VARIABLES platform, types, format, inp, buf, outp, pc, slice, pos, writer, reader, res,
          attrs, text, sent, rcvd

vars == <<platform, types, format, inp, buf, outp, pc, slice, pos, writer, reader, res,
          attrs, text, sent, rcvd>>

\* The state of the calls of unpack_slice, write_to and read_from
io == <<slice, pos, writer, reader, res>>

\* The declaration handed to the derive macro (its attributes and the
\* format string Derive::new collects from them) and the values written
\* to and read from a stream
decl == <<attrs, text>>

stream == <<sent, rcvd>>

\* Bound: the number of format codes of the derived format string.
MaxCodes == 2

Max(a, b) == IF a >= b THEN a ELSE b

Zeros(n) == [i \in 1..n |-> 0]

Reverse(s) == [i \in 1..Len(s) |-> s[Len(s) + 1 - i]]

Slice(s, from, to) == [i \in 1..(to - from) |-> s[from + i]]

RECURSIVE Flatten(_)
Flatten(ss) == IF ss = <<>> THEN <<>> ELSE Head(ss) \o Flatten(Tail(ss))

RECURSIVE SumSeq(_)
SumSeq(s) == IF s = <<>> THEN 0 ELSE Head(s) + SumSeq(Tail(s))

RECURSIVE Repeated(_, _)
Repeated(x, n) == IF n = 0 THEN <<>> ELSE <<x>> \o Repeated(x, n - 1)

\* Option<T>::unwrap_or
unwrap_or(o, d) == IF o = <<>> THEN d ELSE o[1]

(***************************************************************************)
(* The target platforms: the widths of the C types behind the libc aliases *)
(* and of isize/usize, the byte order behind to_ne_bytes, and the          *)
(* signedness of c_char.  On both, align_of of a primitive is its size.    *)
(***************************************************************************)
Platforms ==
    { [name |-> "x86_64-linux",  ptr |-> 8, long |-> 8, big |-> FALSE, charSigned |-> TRUE],
      [name |-> "powerpc-linux", ptr |-> 4, long |-> 4, big |-> TRUE,  charSigned |-> FALSE] }

\* parser::Modifier::byte_order
byte_order(modifier) ==
    CASE modifier = "Native" -> "Native"
      [] modifier = "NativeStandard" -> "Native"
      [] modifier = "LittleEndian" -> "LittleEndian"
      [] modifier = "BigEndian" -> "BigEndian"

\* parser::Modifier::native_types
native_types(modifier) == modifier = "Native"

\* impl Default for Modifier
Modifier_default == "Native"

\* parse_modifier with '!' taken for '='
parse_modifier_bang_standard(lead) ==
    CASE lead = "" -> <<>>
      [] lead = "@" -> <<"Native">>
      [] lead = "=" -> <<"NativeStandard">>
      [] lead = "<" -> <<"LittleEndian">>
      [] lead = ">" -> <<"BigEndian">>
      [] lead = "!" -> <<"NativeStandard">>

\* parser::parse, the modifier rule: the leading character to Some(Modifier),
\* no leading modifier character ("") to None
parse_modifier(lead) ==
    CASE lead = "" -> <<>>
      [] lead = "@" -> <<"Native">>
      [] lead = "=" -> <<"NativeStandard">>
      [] lead = "<" -> <<"LittleEndian">>
      [] lead = ">" -> <<"BigEndian">>
      [] lead = "!" -> <<"BigEndian">>

(***************************************************************************)
(* The parser.  A string is the sequence of its characters.  The pest      *)
(* grammar fmt.pest that parser.rs compiles in is read off the grammar the *)
(* specification and the crate docs give:                                  *)
(*     fmt := modifier? code*         modifier only as the first character *)
(*     code := repeat? (char | ident), ident an identifier in backticks    *)
(* with whitespace allowed between codes and not inside a code.  A rule    *)
(* yields [ok, next, repeat, rule, str]: whether it matched, the position  *)
(* behind the match, and the text of the pairs parse reads.                *)
(***************************************************************************)
ModifierChars == {"@", "=", "<", ">", "!"}

FormatChars ==
    {"?", "B", "H", "I", "L", "N", "Q", "b", "d", "f", "h", "i", "l", "n", "q", "s", "x"}

Digits == {"0", "1", "2", "3", "4", "5", "6", "7", "8", "9"}

\* The characters of an identifier
IdentChars ==
    { "a", "b", "c", "d", "e", "f", "g", "h", "i", "j", "k", "l", "m",
      "n", "o", "p", "q", "r", "s", "t", "u", "v", "w", "x", "y", "z",
      "A", "B", "C", "D", "E", "F", "G", "H", "I", "J", "K", "L", "M",
      "N", "O", "P", "Q", "R", "S", "T", "U", "V", "W", "X", "Y", "Z", "_" } \cup Digits

Whitespace == {" "}

\* The backtick character, which no TLA+ string can hold
Backtick == "BACKTICK"

\* The position behind the longest run of characters of set cs from i on
RECURSIVE run_end(_, _, _)
run_end(s, i, cs) == IF i <= Len(s) /\ s[i] \in cs THEN run_end(s, i + 1, cs) ELSE i

NoMatch == [ok |-> FALSE, next |-> 0, repeat |-> <<>>, rule |-> "", str |-> <<>>]

\* rule code at position i: the digits of the repeat count (none is a
\* match), then at once a format character or a name between backticks
rule_code(s, i) ==
    LET j == run_end(s, i, Digits)
        k == run_end(s, j + 1, IdentChars)
        repeat == SubSeq(s, i, j - 1)
    IN  IF j > Len(s) THEN NoMatch
        ELSE IF s[j] \in FormatChars
        THEN [ok |-> TRUE, next |-> j + 1, repeat |-> repeat, rule |-> "char", str |-> <<s[j]>>]
        ELSE IF s[j] = Backtick /\ k > j + 1 /\ k <= Len(s) /\ s[k] = Backtick
        THEN [ok |-> TRUE, next |-> k + 1, repeat |-> repeat, rule |-> "ident",
              str |-> SubSeq(s, j, k)]
        ELSE NoMatch

\* code* up to the end of the input from position i on, whitespace skipped
\* in front of every code and of the end: [ok, pairs]
RECURSIVE rule_codes(_, _)
rule_codes(s, i) ==
    LET j == run_end(s, i, Whitespace)
        c == rule_code(s, j)
        rest == rule_codes(s, c.next)
    IN  IF j > Len(s) THEN [ok |-> TRUE, pairs |-> <<>>]
        ELSE IF ~c.ok \/ ~rest.ok THEN [ok |-> FALSE, pairs |-> <<>>]
        ELSE [ok |-> TRUE, pairs |-> <<c>> \o rest.pairs]

\* fmt::Parser::parse(fmt::Rule::fmt, inp): [ok, modifier, pairs], the
\* modifier pair being the first character or absent
rule_fmt(s) ==
    LET modifier == IF s # <<>> /\ s[1] \in ModifierChars THEN <<s[1]>> ELSE <<>>
        codes == rule_codes(s, Len(modifier) + 1)
    IN  [ok |-> codes.ok, modifier |-> modifier, pairs |-> codes.pairs]

\* The decimal digits of usize::MAX where the macro runs (the platform it
\* compiles for)
usize_MAX(p) ==
    IF p.ptr = 8
    THEN <<"1", "8", "4", "4", "6", "7", "4", "4", "0", "7",
           "3", "7", "0", "9", "5", "5", "1", "6", "1", "5">>
    ELSE <<"4", "2", "9", "4", "9", "6", "7", "2", "9", "5">>

\* char::to_digit(10)
to_digit(c) ==
    CASE c = "0" -> 0 [] c = "1" -> 1 [] c = "2" -> 2 [] c = "3" -> 3 [] c = "4" -> 4
      [] c = "5" -> 5 [] c = "6" -> 6 [] c = "7" -> 7 [] c = "8" -> 8 [] c = "9" -> 9

\* Whether the number with digits a is at most the number with digits b,
\* for digit strings of one length
RECURSIVE digits_leq(_, _)
digits_leq(a, b) ==
    \/ a = <<>>
    \/ to_digit(a[1]) < to_digit(b[1])
    \/ to_digit(a[1]) = to_digit(b[1]) /\ digits_leq(Tail(a), Tail(b))

\* The number with the digits str after the digits of acc
RECURSIVE digits_value(_, _)
digits_value(acc, str) ==
    IF str = <<>> THEN acc ELSE digits_value(acc * 10 + to_digit(str[1]), Tail(str))

\* str::parse::<usize>().ok() of a string of digits: None for the empty
\* string and for a number above usize::MAX
usize_from_str(str, p) ==
    LET sig == SubSeq(str, run_end(str, 1, {"0"}), Len(str))
        fits == \/ Len(sig) < Len(usize_MAX(p))
                \/ Len(sig) = Len(usize_MAX(p)) /\ digits_leq(sig, usize_MAX(p))
    IN  IF str = <<>> \/ ~fits THEN <<>> ELSE <<digits_value(0, sig)>>

\* str::trim_matches with the backtick as its pattern
trim_matches(str) ==
    LET first == run_end(str, 1, {Backtick})
        last == CHOOSE k \in 0..Len(str) :
                    /\ k = 0 \/ str[k] # Backtick
                    /\ \A m \in (k + 1)..Len(str) : str[m] = Backtick
    IN  SubSeq(str, first, last)

\* parser::parse, the match on the text of a char pair
FormatChar(c) ==
    CASE c = "?" -> "Bool"      [] c = "B" -> "UChar"    [] c = "H" -> "UShort"
      [] c = "I" -> "UInt"      [] c = "L" -> "ULong"    [] c = "N" -> "USize"
      [] c = "Q" -> "ULongLong" [] c = "b" -> "Char"     [] c = "d" -> "Double"
      [] c = "f" -> "Float"     [] c = "h" -> "Short"    [] c = "i" -> "Int"
      [] c = "l" -> "Long"      [] c = "n" -> "Size"     [] c = "q" -> "LongLong"
      [] c = "s" -> "Array"     [] c = "x" -> "Pad"

\* String::to_owned of a sequence of characters
RECURSIVE to_owned(_)
to_owned(str) == IF str = <<>> THEN "" ELSE str[1] \o to_owned(Tail(str))

\* parser::parse, the code rule: the FormatCode of a code pair
FormatCode(pair, p) ==
    [repeat |-> usize_from_str(pair.repeat, p),
     chr |-> IF pair.rule = "char" THEN FormatChar(pair.str[1]) ELSE "Ident",
     name |-> IF pair.rule = "char" THEN "" ELSE to_owned(trim_matches(pair.str))]

NoFormat == [modifier |-> <<>>, codes |-> <<>>]

\* parse with a repeat count that str::parse rejects reported as an error
parse_rejecting_repeat(str, p) ==
    LET t == rule_fmt(str)
        bad == \E i \in 1..Len(t.pairs) :
                  t.pairs[i].repeat # <<>> /\ usize_from_str(t.pairs[i].repeat, p) = <<>>
    IN  IF ~t.ok \/ bad THEN [ok |-> FALSE, format |-> NoFormat]
        ELSE [ok |-> TRUE,
              format |-> [modifier |-> parse_modifier(unwrap_or(t.modifier, "")),
                          codes |-> [i \in 1..Len(t.pairs) |-> FormatCode(t.pairs[i], p)]]]

\* parse with the codes pushed to the front of the vector
parse_pushing_front(str, p) ==
    LET t == rule_fmt(str)
    IN  IF ~t.ok THEN [ok |-> FALSE, format |-> NoFormat]
        ELSE [ok |-> TRUE,
              format |-> [modifier |-> parse_modifier(unwrap_or(t.modifier, "")),
                          codes |-> [i \in 1..Len(t.pairs) |->
                                        FormatCode(t.pairs[Len(t.pairs) + 1 - i], p)]]]

\* parser::parse: Err of the grammar, or Ok(Format {modifier, codes}) with
\* the modifier and the codes of the pairs in their order
parse(str, p) ==
    LET t == rule_fmt(str)
    IN  IF ~t.ok THEN [ok |-> FALSE, format |-> NoFormat]
        ELSE [ok |-> TRUE,
              format |-> [modifier |-> parse_modifier(unwrap_or(t.modifier, "")),
                          codes |-> [i \in 1..Len(t.pairs) |-> FormatCode(t.pairs[i], p)]]]

\* Format_from with every 'x' code taken as one padding byte
Format_from_unit_pad(fc) ==
    CASE fc.chr = "Array" -> [kind |-> "Array", sz |-> unwrap_or(fc.repeat, 1), ident |-> ""]
      [] fc.chr = "Pad" -> [kind |-> "Pad", sz |-> 1, ident |-> ""]
      [] fc.chr = "Ident" -> [kind |-> "Ident", sz |-> 0, ident |-> fc.name]
      [] OTHER -> [kind |-> fc.chr, sz |-> 0, ident |-> ""]

\* impl From<parser::FormatCode> for Format
Format_from(fc) ==
    CASE fc.chr = "Array" -> [kind |-> "Array", sz |-> unwrap_or(fc.repeat, 1), ident |-> ""]
      [] fc.chr = "Pad" -> [kind |-> "Pad", sz |-> unwrap_or(fc.repeat, 1), ident |-> ""]
      [] fc.chr = "Ident" -> [kind |-> "Ident", sz |-> 0, ident |-> fc.name]
      [] OTHER -> [kind |-> fc.chr, sz |-> 0, ident |-> ""]

\* expand_code without the (_, 0) arm: zero-repeat fields materialize
expand_code_materializing(fc) ==
    LET repeat == unwrap_or(fc.repeat, 1)
        fmt == Format_from(fc)
        materialize == ~(fmt.kind = "Pad")
        f == [fmt |-> fmt, materialize |-> materialize]
    IN  IF fmt.kind \in {"Array", "Pad"}
        THEN <<f>>
        ELSE Repeated(f, Max(1, repeat))

\* expand_code with the count of an 's' code taken as a repeat count too
expand_code_repeating_arrays(fc) ==
    LET repeat == unwrap_or(fc.repeat, 1)
        fmt == Format_from(fc)
        materialize == ~(fmt.kind = "Pad" \/ repeat = 0)
        f == [fmt |-> fmt, materialize |-> materialize]
    IN  IF fmt.kind = "Pad"
        THEN <<f>>
        ELSE Repeated(f, Max(1, repeat))

\* Compilation::new, the body of the loop over format.codes: the fields
\* one format code expands into
expand_code(fc) ==
    LET repeat == unwrap_or(fc.repeat, 1)
        fmt == Format_from(fc)
        materialize == ~(fmt.kind = "Pad" \/ repeat = 0)
        f == [fmt |-> fmt, materialize |-> materialize]
    IN  IF fmt.kind \in {"Array", "Pad"}
        THEN <<f>>
        ELSE Repeated(f, Max(1, repeat))

\* Compilation::new: the field list of a parsed format
RECURSIVE Compilation_new(_)
Compilation_new(codes) ==
    IF codes = <<>> THEN <<>>
    ELSE expand_code(Head(codes)) \o Compilation_new(Tail(codes))

\* Compilation::materialized_fields: the indices of the materialized fields
materialized_fields(fields) ==
    SelectSeq([i \in 1..Len(fields) |-> i], LAMBDA i : fields[i].materialize)

(***************************************************************************)
(* Types.  Field::tipe names a Rust type; rust_type resolves the name on a *)
(* platform to [kind, signed, width, elems]: width is the size in bytes of *)
(* a scalar and the length of an array, elems the element types of a       *)
(* tuple.                                                                  *)
(***************************************************************************)
\* Field::tipe
tipe(f, native) ==
    LET k == f.fmt.kind
        scalar(n) == [name |-> n, sz |-> 0, ident |-> ""]
    IN  IF k \in {"Array", "Pad"} THEN [name |-> "[u8; _]", sz |-> f.fmt.sz, ident |-> ""]
        ELSE IF k = "Bool" THEN scalar("bool")
        ELSE IF k = "Ident" THEN [name |-> "Unpacked", sz |-> 0, ident |-> f.fmt.ident]
        ELSE IF ~native THEN
            CASE k = "Char" -> scalar("i8")
              [] k = "Double" -> scalar("f64")
              [] k = "Float" -> scalar("f32")
              [] k = "Int" -> scalar("i32")
              [] k = "Long" -> scalar("i32")
              [] k = "LongLong" -> scalar("i64")
              [] k = "Short" -> scalar("i16")
              [] k = "Size" -> scalar("isize")
              [] k = "UChar" -> scalar("u8")
              [] k = "UInt" -> scalar("u32")
              [] k = "ULong" -> scalar("u32")
              [] k = "ULongLong" -> scalar("u64")
              [] k = "UShort" -> scalar("u16")
              [] k = "USize" -> scalar("usize")
        ELSE
            CASE k = "Char" -> scalar("libc::c_char")
              [] k = "Double" -> scalar("libc::c_double")
              [] k = "Float" -> scalar("libc::c_float")
              [] k = "Int" -> scalar("libc::c_int")
              [] k = "Long" -> scalar("libc::c_long")
              [] k = "LongLong" -> scalar("libc::c_longlong")
              [] k = "Short" -> scalar("libc::c_short")
              [] k = "Size" -> scalar("libc::ssize_t")
              [] k = "UChar" -> scalar("libc::c_uchar")
              [] k = "UInt" -> scalar("libc::c_uint")
              [] k = "ULong" -> scalar("libc::c_ulong")
              [] k = "ULongLong" -> scalar("libc::c_ulonglong")
              [] k = "UShort" -> scalar("libc::c_ushort")
              [] k = "USize" -> scalar("libc::size_t")

\* The Rust type a name produced by Field::tipe denotes on platform p, with
\* env the codecs derived so far (for <ident as restruct::Struct>::Unpacked)
rust_type(p, env, t) ==
    LET int(s, w) == [kind |-> "int", signed |-> s, width |-> w, elems |-> <<>>]
        n == t.name
    IN  CASE n = "[u8; _]" -> [kind |-> "array", signed |-> FALSE, width |-> t.sz, elems |-> <<>>]
          [] n = "bool" -> [kind |-> "bool", signed |-> FALSE, width |-> 1, elems |-> <<>>]
          [] n = "Unpacked" ->
                [kind |-> "tuple", signed |-> FALSE, width |-> 0, elems |-> env[t.ident].Unpacked]
          [] n \in {"f32", "libc::c_float"} ->
                [kind |-> "float", signed |-> FALSE, width |-> 4, elems |-> <<>>]
          [] n \in {"f64", "libc::c_double"} ->
                [kind |-> "float", signed |-> FALSE, width |-> 8, elems |-> <<>>]
          [] n = "i8" -> int(TRUE, 1)
          [] n = "u8" -> int(FALSE, 1)
          [] n = "i16" -> int(TRUE, 2)
          [] n = "u16" -> int(FALSE, 2)
          [] n = "i32" -> int(TRUE, 4)
          [] n = "u32" -> int(FALSE, 4)
          [] n = "i64" -> int(TRUE, 8)
          [] n = "u64" -> int(FALSE, 8)
          [] n = "isize" -> int(TRUE, p.ptr)
          [] n = "usize" -> int(FALSE, p.ptr)
          [] n = "libc::c_char" -> int(p.charSigned, 1)
          [] n = "libc::c_uchar" -> int(FALSE, 1)
          [] n = "libc::c_short" -> int(TRUE, 2)
          [] n = "libc::c_ushort" -> int(FALSE, 2)
          [] n = "libc::c_int" -> int(TRUE, 4)
          [] n = "libc::c_uint" -> int(FALSE, 4)
          [] n = "libc::c_long" -> int(TRUE, p.long)
          [] n = "libc::c_ulong" -> int(FALSE, p.long)
          [] n = "libc::c_longlong" -> int(TRUE, 8)
          [] n = "libc::c_ulonglong" -> int(FALSE, 8)
          [] n = "libc::ssize_t" -> int(TRUE, p.ptr)
          [] n = "libc::size_t" -> int(FALSE, p.ptr)

RECURSIVE align_of(_)

\* align_of with a tuple aligned as its first element
align_of_first_element(ty) ==
    CASE ty.kind \in {"int", "float"} -> ty.width
      [] ty.kind \in {"bool", "array"} -> 1
      [] ty.kind = "tuple" -> IF ty.elems = <<>> THEN 1 ELSE align_of(Head(ty.elems))

\* std::mem::align_of::<T>(): the size of a number, 1 for bool and [u8; n],
\* the largest alignment of the elements for a tuple
align_of(ty) ==
    CASE ty.kind \in {"int", "float"} -> ty.width
      [] ty.kind \in {"bool", "array"} -> 1
      [] ty.kind = "tuple" ->
            IF ty.elems = <<>> THEN 1
            ELSE LET rest == align_of([ty EXCEPT !.elems = Tail(ty.elems)])
                 IN  Max(align_of(Head(ty.elems)), rest)

\* align without the (offset != 0) factor: a whole unit at aligned offsets
align_always(ty, ptr) ==
    LET al == align_of(ty)
        offset == ptr % al
    IN  al - offset

\* The generated const fn align<T>(ptr)
align(ty, ptr) ==
    LET al == align_of(ty)
        offset == ptr % al
    IN  (IF offset # 0 THEN 1 ELSE 0) * (al - offset)

\* size_expr without the (false, _) arm: zero-repeat fields keep their bytes
size_expr_always(f, modifier, p, env) ==
    LET ty == rust_type(p, env, tipe(f, native_types(modifier)))
        k == f.fmt.kind
    IN  IF k = "Bool" THEN 1
        ELSE IF k = "Pad" THEN f.fmt.sz
        ELSE IF k = "Float" THEN 4
        ELSE IF k = "Double" THEN 8
        ELSE IF k = "Array" THEN f.fmt.sz
        ELSE IF k = "Ident" THEN env[f.fmt.ident].SIZE
        ELSE ty.width

\* size_expr with 'l' and 'L' at the width of the C long in every mode
size_expr_c_long(f, modifier, p, env) ==
    LET ty == rust_type(p, env, tipe(f, native_types(modifier)))
        k == f.fmt.kind
    IN  IF f.materialize /\ k = "Bool" THEN 1
        ELSE IF k = "Pad" THEN f.fmt.sz
        ELSE IF ~f.materialize THEN 0
        ELSE IF k = "Float" THEN 4
        ELSE IF k = "Double" THEN 8
        ELSE IF k = "Array" THEN f.fmt.sz
        ELSE IF k = "Ident" THEN env[f.fmt.ident].SIZE
        ELSE IF k \in {"Long", "ULong"} THEN p.long
        ELSE ty.width

\* Field::size_expr: the payload bytes of a field
size_expr(f, modifier, p, env) ==
    LET ty == rust_type(p, env, tipe(f, native_types(modifier)))
        k == f.fmt.kind
    IN  IF f.materialize /\ k = "Bool" THEN 1
        ELSE IF k = "Pad" THEN f.fmt.sz
        ELSE IF ~f.materialize THEN 0
        ELSE IF k = "Float" THEN 4
        ELSE IF k = "Double" THEN 8
        ELSE IF k = "Array" THEN f.fmt.sz
        ELSE IF k = "Ident" THEN env[f.fmt.ident].SIZE
        ELSE ty.width

\* Compilation_fields with FIELDx_SIZE set to the payload bytes alone
RECURSIVE Compilation_fields_payload_size(_, _, _, _, _)
Compilation_fields_payload_size(fields, modifier, p, env, n) ==
    IF n = 0 THEN <<>>
    ELSE LET prev == Compilation_fields_payload_size(fields, modifier, p, env, n - 1)
             cur == fields[n]
             ty == tipe(cur, native_types(modifier))
             co == IF n = 1 THEN 0 ELSE prev[n - 1].offset + prev[n - 1].size
             ca == IF n = 1 THEN 0
                   ELSE IF native_types(modifier) THEN align(rust_type(p, env, ty), co)
                   ELSE 0
             cs == size_expr(cur, modifier, p, env)
         IN  Append(prev, [tipe |-> ty, offset |-> co, alignment |-> ca, size |-> cs])

\* Compilation_fields with the alignment computed in every mode
RECURSIVE Compilation_fields_always_aligned(_, _, _, _, _)
Compilation_fields_always_aligned(fields, modifier, p, env, n) ==
    IF n = 0 THEN <<>>
    ELSE LET prev == Compilation_fields_always_aligned(fields, modifier, p, env, n - 1)
             cur == fields[n]
             ty == tipe(cur, native_types(modifier))
             co == IF n = 1 THEN 0 ELSE prev[n - 1].offset + prev[n - 1].size
             ca == IF n = 1 THEN 0 ELSE align(rust_type(p, env, ty), co)
             cs == ca + size_expr(cur, modifier, p, env)
         IN  Append(prev, [tipe |-> ty, offset |-> co, alignment |-> ca, size |-> cs])

\* Compilation_fields with the alignment computed for '=' as for '@'
RECURSIVE Compilation_fields_aligning_native_order(_, _, _, _, _)
Compilation_fields_aligning_native_order(fields, modifier, p, env, n) ==
    IF n = 0 THEN <<>>
    ELSE LET prev == Compilation_fields_aligning_native_order(fields, modifier, p, env, n - 1)
             cur == fields[n]
             ty == tipe(cur, native_types(modifier))
             co == IF n = 1 THEN 0 ELSE prev[n - 1].offset + prev[n - 1].size
             ca == IF n = 1 THEN 0
                   ELSE IF byte_order(modifier) = "Native" THEN align(rust_type(p, env, ty), co)
                   ELSE 0
             cs == ca + size_expr(cur, modifier, p, env)
         IN  Append(prev, [tipe |-> ty, offset |-> co, alignment |-> ca, size |-> cs])

\* Compilation::fields with Field::fields_ary_entry: the FIELDx_OFFSET,
\* FIELDx_ALIGNMENT and FIELDx_SIZE constants of the first n fields
RECURSIVE Compilation_fields(_, _, _, _, _)
Compilation_fields(fields, modifier, p, env, n) ==
    IF n = 0 THEN <<>>
    ELSE LET prev == Compilation_fields(fields, modifier, p, env, n - 1)
             cur == fields[n]
             ty == tipe(cur, native_types(modifier))
             co == IF n = 1 THEN 0 ELSE prev[n - 1].offset + prev[n - 1].size
             ca == IF n = 1 THEN 0
                   ELSE IF native_types(modifier) THEN align(rust_type(p, env, ty), co)
                   ELSE 0
             cs == ca + size_expr(cur, modifier, p, env)
         IN  Append(prev, [tipe |-> ty, offset |-> co, alignment |-> ca, size |-> cs])

\* Compilation_size rounded up to a multiple of 4 bytes
Compilation_size_rounded(FIELDS) ==
    IF FIELDS = <<>> THEN 0
    ELSE LET end == FIELDS[Len(FIELDS)].offset + FIELDS[Len(FIELDS)].size
         IN  end + ((4 - (end % 4)) % 4)

\* Compilation_size with a packed array of at least one byte
Compilation_size_min_one(FIELDS) ==
    IF FIELDS = <<>> THEN 1
    ELSE Max(1, FIELDS[Len(FIELDS)].offset + FIELDS[Len(FIELDS)].size)

\* Compilation::size
Compilation_size(FIELDS) ==
    IF FIELDS = <<>> THEN 0
    ELSE FIELDS[Len(FIELDS)].offset + FIELDS[Len(FIELDS)].size

\* unpacked_type with an element for every field, materialized or not
unpacked_type_all_fields(fields, modifier, p, env) ==
    [j \in 1..Len(fields) |-> rust_type(p, env, tipe(fields[j], native_types(modifier)))]

\* Compilation::unpacked_type
unpacked_type(fields, modifier, p, env) ==
    LET m == materialized_fields(fields)
    IN  [j \in 1..Len(m) |-> rust_type(p, env, tipe(fields[m[j]], native_types(modifier)))]

\* derive with FIELDS listing the materialized fields alone
derive_listing_materialized(fmt, p, env) ==
    LET modifier == unwrap_or(fmt.modifier, Modifier_default)
        fields == Compilation_new(fmt.codes)
        FIELDS == Compilation_fields(fields, modifier, p, env, Len(fields))
        m == materialized_fields(fields)
    IN  [modifier |-> modifier,
         fields |-> fields,
         FIELDS |-> [j \in 1..Len(m) |-> FIELDS[m[j]]],
         SIZE |-> Compilation_size(FIELDS),
         Unpacked |-> unpacked_type(fields, modifier, p, env)]

\* restruct::derive after parsing: Compilation::new and the items that
\* to_tokens generates for the type
derive(fmt, p, env) ==
    LET modifier == unwrap_or(fmt.modifier, Modifier_default)
        fields == Compilation_new(fmt.codes)
        FIELDS == Compilation_fields(fields, modifier, p, env, Len(fields))
    IN  [modifier |-> modifier,
         fields |-> fields,
         FIELDS |-> FIELDS,
         SIZE |-> Compilation_size(FIELDS),
         Unpacked |-> unpacked_type(fields, modifier, p, env)]

(***************************************************************************)
(* The derive macro.  An attribute of the declaration is what              *)
(* syn::Attribute::interpret_meta makes of it: [meta, ident, lit, str,     *)
(* bool] with meta the kind of syn::Meta, lit the kind of the literal of a *)
(* NameValue, and str or bool its value.                                   *)
(***************************************************************************)
\* Derive_attr with a later fmt fragment put in front of the earlier ones
Derive_attr_prepending(d, a) ==
    IF a.meta = "NameValue" /\ a.ident = "fmt"
    THEN IF a.lit = "Str" THEN [d EXCEPT !.format = a.str \o @]
         ELSE [d EXCEPT !.panic = "fmt attribute must be a string."]
    ELSE IF a.meta = "NameValue" /\ a.ident = "debug_output"
    THEN IF a.lit = "Bool" THEN [d EXCEPT !.debug_output = a.bool]
         ELSE [d EXCEPT !.panic = "debug_output attribute must be a bool."]
    ELSE IF a.meta = "Word" /\ a.ident = "debug_output"
    THEN [d EXCEPT !.debug_output = TRUE]
    ELSE d

\* Derive::new, the body of the loop over ast.attrs
Derive_attr(d, a) ==
    IF a.meta = "NameValue" /\ a.ident = "fmt"
    THEN IF a.lit = "Str" THEN [d EXCEPT !.format = @ \o a.str]
         ELSE [d EXCEPT !.panic = "fmt attribute must be a string."]
    ELSE IF a.meta = "NameValue" /\ a.ident = "debug_output"
    THEN IF a.lit = "Bool" THEN [d EXCEPT !.debug_output = a.bool]
         ELSE [d EXCEPT !.panic = "debug_output attribute must be a bool."]
    ELSE IF a.meta = "Word" /\ a.ident = "debug_output"
    THEN [d EXCEPT !.debug_output = TRUE]
    ELSE d

\* Derive::new, the loop over the attributes as from d on, up to a panic
RECURSIVE Derive_attrs(_, _)
Derive_attrs(d, as) ==
    IF as = <<>> \/ d.panic # "" THEN d
    ELSE Derive_attrs(Derive_attr(d, Head(as)), Tail(as))

\* Derive::new: the format string and debug_output of a declaration, or
\* the message of the panic
Derive_new(as) == Derive_attrs([panic |-> "", format |-> <<>>, debug_output |-> FALSE], as)

\* derive_input with the empty format compiled when parse fails
derive_input_lenient(as, p, env) ==
    LET d == Derive_new(as)
        f == parse(d.format, p)
        unknown == \E i \in 1..Len(f.format.codes) :
                      f.format.codes[i].chr = "Ident" /\ f.format.codes[i].name \notin DOMAIN env
    IN  IF d.panic # "" THEN [res |-> d.panic, format |-> NoFormat, codec |-> <<>>]
        ELSE IF unknown THEN [res |-> "cannot find type", format |-> NoFormat, codec |-> <<>>]
        ELSE [res |-> "Ok", format |-> f.format, codec |-> <<derive(f.format, p, env)>>]

\* restruct::derive on a declaration with the attributes as: the panic of
\* Derive::new, or of expect on the Err of parse, or the codec of the items
\* generated for the parsed format; the items of a format that names a type
\* without a codec do not compile
derive_input(as, p, env) ==
    LET d == Derive_new(as)
        f == parse(d.format, p)
        unknown == \E i \in 1..Len(f.format.codes) :
                      f.format.codes[i].chr = "Ident" /\ f.format.codes[i].name \notin DOMAIN env
    IN  IF d.panic # "" THEN [res |-> d.panic, format |-> NoFormat, codec |-> <<>>]
        ELSE IF ~f.ok
        THEN [res |-> "Failed to parse format-string", format |-> NoFormat, codec |-> <<>>]
        ELSE IF unknown THEN [res |-> "cannot find type", format |-> NoFormat, codec |-> <<>>]
        ELSE [res |-> "Ok", format |-> f.format, codec |-> <<derive(f.format, p, env)>>]

(***************************************************************************)
(* Byte conversion: to_{ne,le,be}_bytes and from_{ne,le,be}_bytes of the   *)
(* integer types, selected by Field::to_bytes / Field::from_bytes.         *)
(***************************************************************************)
\* v >> (8 * k), arithmetic shift
RECURSIVE shr(_, _)
shr(v, k) == IF k = 0 THEN v ELSE shr(v \div 256, k - 1)

\* The w bytes of v in two's complement, least significant first
le_bytes(v, w) == [k \in 1..w |-> shr(v, k - 1) % 256]

\* Whether a byte order stores the most significant byte first on platform p
is_big(order, p) == order = "BigEndian" \/ (order = "Native" /\ p.big)

\* to_bytes with to_ne_bytes for every byte order
to_bytes_native(order, p, v, w) ==
    IF p.big THEN Reverse(le_bytes(v, w)) ELSE le_bytes(v, w)

\* Field::to_bytes: the method pack calls on a number, applied to v at width w
to_bytes(order, p, v, w) ==
    IF is_big(order, p) THEN Reverse(le_bytes(v, w)) ELSE le_bytes(v, w)

\* The number whose digits, most significant first, are acc followed by bytes
RECURSIVE be_value(_, _)
be_value(acc, bytes) ==
    IF bytes = <<>> THEN acc ELSE be_value(acc * 256 + Head(bytes), Tail(bytes))

\* Field::from_bytes: the constructor unpack calls on the bytes of a number
from_bytes(order, p, signed, bytes) ==
    LET msb == IF is_big(order, p) THEN bytes ELSE Reverse(bytes)
        top == IF signed /\ msb[1] >= 128 THEN msb[1] - 256 ELSE msb[1]
    IN  be_value(top, Tail(msb))

(***************************************************************************)
(* The generated codec.  c is the record derive returns for the type.      *)
(***************************************************************************)
RECURSIVE pack(_, _, _, _)
RECURSIVE unpack(_, _, _, _)

\* pack_expr with a nested codec packed under the modifier of the outer
\* format
pack_expr_outer_modifier(f, modifier, p, env, access) ==
    LET ty == rust_type(p, env, tipe(f, native_types(modifier)))
        k == f.fmt.kind
    IN  CASE k = "Bool" -> <<IF access THEN 1 ELSE 0>>
          [] k = "Pad" -> Zeros(f.fmt.sz)
          [] k = "Float" -> to_bytes(byte_order(modifier), p, access, 4)
          [] k = "Double" -> to_bytes(byte_order(modifier), p, access, 8)
          [] k = "Array" -> access
          [] k = "Ident" -> pack([env[f.fmt.ident] EXCEPT !.modifier = modifier], p, env, access)
          [] OTHER -> to_bytes(byte_order(modifier), p, access, ty.width)

\* pack_expr with true cast to the byte 255
pack_expr_bool_all_ones(f, modifier, p, env, access) ==
    LET ty == rust_type(p, env, tipe(f, native_types(modifier)))
        k == f.fmt.kind
    IN  CASE k = "Bool" -> <<IF access THEN 255 ELSE 0>>
          [] k = "Pad" -> Zeros(f.fmt.sz)
          [] k = "Float" -> to_bytes(byte_order(modifier), p, access, 4)
          [] k = "Double" -> to_bytes(byte_order(modifier), p, access, 8)
          [] k = "Array" -> access
          [] k = "Ident" -> pack(env[f.fmt.ident], p, env, access)
          [] OTHER -> to_bytes(byte_order(modifier), p, access, ty.width)

\* Field::pack_expr: the bytes of the payload of a materialized field
pack_expr(f, modifier, p, env, access) ==
    LET ty == rust_type(p, env, tipe(f, native_types(modifier)))
        k == f.fmt.kind
    IN  CASE k = "Bool" -> <<IF access THEN 1 ELSE 0>>
          [] k = "Pad" -> Zeros(f.fmt.sz)
          [] k = "Float" -> to_bytes(byte_order(modifier), p, access, 4)
          [] k = "Double" -> to_bytes(byte_order(modifier), p, access, 8)
          [] k = "Array" -> access
          [] k = "Ident" -> pack(env[f.fmt.ident], p, env, access)
          [] OTHER -> to_bytes(byte_order(modifier), p, access, ty.width)

\* unpack_expr with byte arrays converted from the byte order like numbers
unpack_expr_reversing(f, modifier, p, env, access) ==
    LET ty == rust_type(p, env, tipe(f, native_types(modifier)))
        k == f.fmt.kind
    IN  CASE k = "Bool" -> access[1] # 0
          [] k = "Pad" -> Zeros(f.fmt.sz)
          [] k \in {"Float", "Double"} -> from_bytes(byte_order(modifier), p, FALSE, access)
          [] k = "Array" -> IF is_big(byte_order(modifier), p) THEN Reverse(access) ELSE access
          [] k = "Ident" -> unpack(env[f.fmt.ident], p, env, access)
          [] OTHER -> from_bytes(byte_order(modifier), p, ty.signed, access)

\* unpack_expr with only the byte 1 taken as true
unpack_expr_bool_is_one(f, modifier, p, env, access) ==
    LET ty == rust_type(p, env, tipe(f, native_types(modifier)))
        k == f.fmt.kind
    IN  CASE k = "Bool" -> access[1] = 1
          [] k = "Pad" -> Zeros(f.fmt.sz)
          [] k \in {"Float", "Double"} -> from_bytes(byte_order(modifier), p, FALSE, access)
          [] k = "Array" -> access
          [] k = "Ident" -> unpack(env[f.fmt.ident], p, env, access)
          [] OTHER -> from_bytes(byte_order(modifier), p, ty.signed, access)

\* Field::unpack_expr: the value of a materialized field from its payload
unpack_expr(f, modifier, p, env, access) ==
    LET ty == rust_type(p, env, tipe(f, native_types(modifier)))
        k == f.fmt.kind
    IN  CASE k = "Bool" -> access[1] # 0
          [] k = "Pad" -> Zeros(f.fmt.sz)
          [] k \in {"Float", "Double"} -> from_bytes(byte_order(modifier), p, FALSE, access)
          [] k = "Array" -> access
          [] k = "Ident" -> unpack(env[f.fmt.ident], p, env, access)
          [] OTHER -> from_bytes(byte_order(modifier), p, ty.signed, access)

\* pack with the alignment bytes of a field put after its payload
pack_trailing_alignment(c, p, env, v) ==
    LET mi(i) == Cardinality({j \in 1..i : c.fields[j].materialize})
        expr(i) ==
            (IF c.fields[i].materialize
             THEN pack_expr(c.fields[i], c.modifier, p, env, v[mi(i)])
             ELSE Zeros(c.FIELDS[i].size - c.FIELDS[i].alignment))
            \o Zeros(c.FIELDS[i].alignment)
    IN  Flatten([i \in 1..Len(c.fields) |-> expr(i)])

\* Compilation::pack: per field, FIELDS[i].2 zero bytes, then the payload
\* of a materialized field (the next element of inp) or
\* FIELDS[i].3 - FIELDS[i].2 zero bytes; the tuple of all of them is
\* transmuted into the packed array
pack(c, p, env, v) ==
    LET mi(i) == Cardinality({j \in 1..i : c.fields[j].materialize})
        expr(i) ==
            Zeros(c.FIELDS[i].alignment) \o
            (IF c.fields[i].materialize
             THEN pack_expr(c.fields[i], c.modifier, p, env, v[mi(i)])
             ELSE Zeros(c.FIELDS[i].size - c.FIELDS[i].alignment))
    IN  Flatten([i \in 1..Len(c.fields) |-> expr(i)])

\* Compilation::unpack: the packed array is transmuted into the tuple of
\* ([u8; FIELDS[i].2], [u8; FIELDS[i].3 - FIELDS[i].2]) of all fields and
\* each materialized field is decoded from element 2 * i + 1
unpack(c, p, env, b) ==
    LET m == materialized_fields(c.fields)
        start(i) == SumSeq([j \in 1..(i - 1) |-> c.FIELDS[j].size]) + c.FIELDS[i].alignment
        len(i) == c.FIELDS[i].size - c.FIELDS[i].alignment
        member(i) == Slice(b, start(i), start(i) + len(i))
    IN  [j \in 1..Len(m) |-> unpack_expr(c.fields[m[j]], c.modifier, p, env, member(m[j]))]

(***************************************************************************)
(* The generated convenience functions.  A writer is [data, room, error]:  *)
(* the bytes it took so far, Some(number of bytes it still takes) or None  *)
(* for a writer that never fails (a Vec), and the error it reports once    *)
(* full.  A reader is a byte slice with an error it reports instead of     *)
(* data ("" for none); a call tells how many bytes it consumed.            *)
(***************************************************************************)
\* unpack_slice with copy_from_slice(inp): a panic unless the slice has
\* exactly SIZE bytes
unpack_slice_exact_length(c, p, env, b) ==
    IF Len(b) # c.SIZE
    THEN [res |-> "panic", value |-> <<>>, pos |-> 0]
    ELSE [res |-> "Ok", value |-> unpack(c, p, env, b), pos |-> c.SIZE]

\* The generated unpack_slice: &inp[..Self::SIZE] panics on a short slice
\* before a byte is copied; otherwise the first SIZE bytes are unpacked
unpack_slice(c, p, env, b) ==
    IF Len(b) < c.SIZE
    THEN [res |-> "panic", value |-> <<>>, pos |-> 0]
    ELSE [res |-> "Ok", value |-> unpack(c, p, env, SubSeq(b, 1, c.SIZE)), pos |-> c.SIZE]

\* std::io::Write::write_all as write_to calls it: all of bytes are taken,
\* or the writer's error comes back after the bytes that still fit
write_all(wr, bytes) ==
    IF wr.room = <<>>
    THEN [w |-> [wr EXCEPT !.data = @ \o bytes], res |-> "Ok"]
    ELSE IF Len(bytes) <= wr.room[1]
    THEN [w |-> [wr EXCEPT !.data = @ \o bytes, !.room = <<wr.room[1] - Len(bytes)>>],
          res |-> "Ok"]
    ELSE [w |-> [wr EXCEPT !.data = @ \o SubSeq(bytes, 1, wr.room[1]), !.room = <<0>>],
          res |-> wr.error]

\* write_to with the result of write_all dropped
write_to_ignoring_error(c, p, env, v, wr) ==
    [w |-> write_all(wr, pack(c, p, env, v)).w, res |-> "Ok"]

\* The generated write_to
write_to(c, p, env, v, wr) == write_all(wr, pack(c, p, env, v))

\* read_exact that leaves the bytes it returns in the reader
read_exact_peeking(data, error, n) ==
    IF n = 0 THEN {[res |-> "Ok", bytes |-> <<>>, pos |-> 0]}
    ELSE IF error # "" THEN {[res |-> error, bytes |-> <<>>, pos |-> 0]}
    ELSE IF Len(data) < n
    THEN {[res |-> "UnexpectedEof", bytes |-> <<>>, pos |-> k] : k \in {0, Len(data)}}
    ELSE {[res |-> "Ok", bytes |-> SubSeq(data, 1, n), pos |-> 0]}

\* std::io::Read::read_exact as read_from calls it, the possible outcomes:
\* n bytes are consumed, or the reader's error comes back, or
\* UnexpectedEof with an unspecified part of the short data consumed
read_exact(data, error, n) ==
    IF n = 0 THEN {[res |-> "Ok", bytes |-> <<>>, pos |-> 0]}
    ELSE IF error # "" THEN {[res |-> error, bytes |-> <<>>, pos |-> 0]}
    ELSE IF Len(data) < n
    THEN {[res |-> "UnexpectedEof", bytes |-> <<>>, pos |-> k] : k \in {0, Len(data)}}
    ELSE {[res |-> "Ok", bytes |-> SubSeq(data, 1, n), pos |-> n]}

\* The generated read_from, the possible outcomes: `?` returns the error of
\* read_exact; otherwise the SIZE bytes of __BUFFER are unpacked
read_from(c, p, env, data, error) ==
    { [res |-> x.res,
       value |-> IF x.res = "Ok" THEN unpack(c, p, env, x.bytes) ELSE <<>>,
       pos |-> x.pos] : x \in read_exact(data, error, c.SIZE) }

(***************************************************************************)
(* The inputs.                                                             *)
(***************************************************************************)
\* A format code as parser::parse returns it
code(repeat, chr, name) == [repeat |-> repeat, chr |-> chr, name |-> name]

\* The type derived by the Derive action
Target == "Bar"

\* Types derived earlier in the crate, in derivation order: the turtles of
\* derive/tests/types.rs (deeply_nested) and the Foo of the crate docs
Library ==
    << [name |-> "MostBottomTurtle",
        lead |-> "", codes |-> <<code(<<2>>, "Bool", "")>>],
       [name |-> "BottomTurtle",
        lead |-> "", codes |-> <<code(<<>>, "ULong", ""), code(<<1>>, "Ident", "MostBottomTurtle")>>],
       [name |-> "Foo",
        lead |-> "<", codes |-> <<code(<<>>, "Char", ""), code(<<2>>, "Int", "")>>] >>

\* The leading characters of a format string: none, or a modifier
Leads == {"", "@", "=", "<", ">", "!"}

\* The format codes the derived format string is built from
Pool ==
    { code(<<2>>, "Pad", ""),
      code(<<3>>, "Array", ""), code(<<0>>, "Array", ""),
      code(<<>>, "Bool", ""), code(<<>>, "Char", ""),
      code(<<2>>, "Short", ""),
      code(<<0>>, "LongLong", ""),
      code(<<>>, "Size", ""), code(<<>>, "Float", ""),
      code(<<2>>, "Ident", "BottomTurtle") }

CodeSeqs == UNION {[1..n -> Pool] : n \in 0..MaxCodes}

\* The two sample inputs of pack
Seeds == {1, 2}

\* A value of type ty: sample k \in {1, 2} of the type
RECURSIVE sample(_, _)
sample(ty, k) ==
    CASE ty.kind = "bool" -> k = 1
      [] ty.kind = "array" -> [i \in 1..ty.width |-> (160 * k + 17 * i) % 256]
      [] ty.kind = "float" -> IF k = 1 THEN 1078530011 ELSE 1073741824
      [] ty.kind = "tuple" -> [i \in 1..Len(ty.elems) |-> sample(ty.elems[i], 1 + ((k + i) % 2))]
      [] ty.kind = "int" /\ ty.signed ->
            IF k = 1
            THEN (IF ty.width = 1 THEN -7 ELSE IF ty.width = 2 THEN -700 ELSE -70000000)
            ELSE (IF ty.width = 1 THEN 7 ELSE IF ty.width = 2 THEN 700 ELSE 70000000)
      [] ty.kind = "int" /\ ~ty.signed ->
            IF k = 1
            THEN (IF ty.width = 1 THEN 249 ELSE IF ty.width = 2 THEN 64836 ELSE 305419896)
            ELSE (IF ty.width = 1 THEN 7 ELSE IF ty.width = 2 THEN 700 ELSE 70000000)

\* A value of the tuple type Unpacked
sample_tuple(Unpacked, seed) ==
    [i \in 1..Len(Unpacked) |-> sample(Unpacked[i], 1 + ((seed + i) % 2))]

\* restruct::derive applied to the declarations of progs in order
RECURSIVE derive_all(_, _, _)
derive_all(progs, p, env) ==
    IF progs = <<>> THEN env
    ELSE LET d == Head(progs)
             fmt == [modifier |-> parse_modifier(d.lead), codes |-> d.codes]
         IN  derive_all(Tail(progs), p, env @@ (d.name :> derive(fmt, p, env)))

\* The packed bytes as another producer may write them: a true bool as a
\* non-zero byte other than 1
Truthy(b) == [i \in 1..Len(b) |-> IF b[i] = 1 THEN 77 ELSE b[i]]

\* The byte slices handed to unpack_slice for the packed bytes b: one byte
\* short, and followed by two more bytes
Slices(b) ==
    {SubSeq(b, 1, Len(b) - 1), b \o <<255, 255>>}

\* The writers handed to write_to for n bytes: a Vec, and a buffer one byte
\* too small
Writers(n) ==
    { [data |-> <<>>, room |-> <<>>, error |-> ""],
      [data |-> <<>>, room |-> <<Max(0, n - 1)>>, error |-> "WriteZero"] }

\* The readers handed to read_from for the packed bytes b: a slice reader
\* over the bytes of another producer and two more, one over a slice one
\* byte short, and a reader that fails
Readers(b) ==
    { [data |-> Truthy(b) \o <<255, 255>>, error |-> ""],
      [data |-> SubSeq(b, 1, Len(b) - 1), error |-> ""],
      [data |-> b, error |-> "BrokenPipe"] }

\* Bound: the number of attributes of the declaration handed to the macro
MaxAttrs == 3

\* The attribute #[fmt = "str"]
fmt_attr(str) == [meta |-> "NameValue", ident |-> "fmt", lit |-> "Str", str |-> str, bool |-> FALSE]

\* A repeat count above usize::MAX of both platforms
HugeRepeat == [i \in 1..20 |-> "9"]

\* The attributes a declaration is built from: fragments of format strings
\* (modifiers, repeat counts, format characters, a space, a backtick, a
\* nested reference, an unknown character), #[fmt(">B")], #[debug_output]
\* and #[fmt = true]
Attributes ==
    { fmt_attr(<<"<">>), fmt_attr(<<"!">>), fmt_attr(<<"2">>), fmt_attr(<<"0">>),
      fmt_attr(<<"i">>), fmt_attr(<<"s">>), fmt_attr(<<"x">>), fmt_attr(<<" ">>),
      fmt_attr(<<Backtick>>), fmt_attr(<<Backtick, "F", "o", "o", Backtick>>),
      fmt_attr(<<"v">>), fmt_attr(HugeRepeat),
      [meta |-> "List", ident |-> "fmt", lit |-> "Str", str |-> <<">", "B">>, bool |-> FALSE],
      [meta |-> "Word", ident |-> "debug_output", lit |-> "", str |-> <<>>, bool |-> FALSE],
      [meta |-> "NameValue", ident |-> "fmt", lit |-> "Bool", str |-> <<>>, bool |-> TRUE] }

AttrSeqs == UNION {[1..n -> Attributes] : n \in 0..MaxAttrs}

\* Bounds: the number of format codes of a codec whose values are streamed
\* and the number of values written to the stream
MaxStreamCodes == 1

MaxValues == 2

StreamCodeSeqs == UNION {[1..n -> Pool] : n \in 0..MaxStreamCodes}

(***************************************************************************)
(* The state machine: a crate on a platform with the Library types         *)
(* derived; Target is derived from a format, a value is packed, and the    *)
(* packed bytes are unpacked, or handed to unpack_slice or read_from, or   *)
(* the value is written with write_to.                                     *)
(***************************************************************************)
NoWriter == [data |-> <<>>, room |-> <<>>, error |-> ""]

Init ==
    /\ platform \in Platforms
    /\ types = derive_all(Library, platform, <<>>)
    /\ format = NoFormat
    /\ inp = <<>>
    /\ buf = <<>>
    /\ outp = <<>>
    /\ pc = "start"
    /\ slice = <<>>
    /\ pos = 0
    /\ writer = NoWriter
    /\ reader = ""
    /\ res = ""
    /\ attrs = <<>>
    /\ text = <<>>
    /\ sent = <<>>
    /\ rcvd = <<>>

\* #[derive(Struct)] on Target with the format string lead ++ codes
Derive ==
    /\ pc = "start"
    /\ \E lead \in Leads, codes \in CodeSeqs :
          /\ \A i \in 1..Len(codes) : codes[i].chr = "Ident" => codes[i].name \in DOMAIN types
          /\ format' = [modifier |-> parse_modifier(lead), codes |-> codes]
          /\ types' = types @@ (Target :> derive(format', platform, types))
    /\ pc' = "derived"
    /\ UNCHANGED <<platform, inp, buf, outp>>
    /\ UNCHANGED <<io, decl, stream>>

\* Target::pack(v) for a value v of the unpacked tuple type
Pack ==
    /\ pc = "derived"
    /\ \E seed \in Seeds : inp' = sample_tuple(types[Target].Unpacked, seed)
    /\ buf' = pack(types[Target], platform, types, inp')
    /\ pc' = "packed"
    /\ UNCHANGED <<platform, types, format, outp>>
    /\ UNCHANGED <<io, decl, stream>>

\* Target::unpack(buf)
Unpack ==
    /\ pc = "packed"
    /\ outp' = unpack(types[Target], platform, types, buf)
    /\ pc' = "unpacked"
    /\ UNCHANGED <<platform, types, format, inp, buf>>
    /\ UNCHANGED <<io, decl, stream>>

\* Target::unpack_slice(&slice)
UnpackSlice ==
    /\ pc = "packed"
    /\ \E s \in Slices(buf) :
          LET call == unpack_slice(types[Target], platform, types, s)
          IN  /\ slice' = s
              /\ res' = call.res
              /\ outp' = call.value
              /\ pos' = call.pos
    /\ pc' = "sliced"
    /\ UNCHANGED <<platform, types, format, inp, buf, writer, reader>>
    /\ UNCHANGED <<decl, stream>>

\* Target::write_to(inp, &mut writer)
WriteTo ==
    /\ pc = "packed"
    /\ \E wr \in Writers(types[Target].SIZE) :
          LET call == write_to(types[Target], platform, types, inp, wr)
          IN  /\ writer' = call.w
              /\ res' = call.res
    /\ pc' = "written"
    /\ UNCHANGED <<platform, types, format, inp, buf, outp, slice, pos, reader>>
    /\ UNCHANGED <<decl, stream>>

\* Target::read_from(&mut reader), the reader over the bytes of slice
ReadFrom ==
    /\ pc = "packed"
    /\ \E rd \in Readers(buf) :
          /\ slice' = rd.data
          /\ reader' = rd.error
          /\ \E call \in read_from(types[Target], platform, types, rd.data, rd.error) :
                /\ res' = call.res
                /\ outp' = call.value
                /\ pos' = call.pos
    /\ pc' = "read"
    /\ UNCHANGED <<platform, types, format, inp, buf, writer>>
    /\ UNCHANGED <<decl, stream>>

\* #[derive(Struct)] on Target with the attributes as: the macro panics or
\* expands to the codec, and the crate compiles or does not
DeriveInput ==
    /\ pc = "start"
    /\ \E as \in AttrSeqs :
          LET call == derive_input(as, platform, types)
          IN  /\ attrs' = as
              /\ text' = Derive_new(as).format
              /\ res' = call.res
              /\ format' = call.format
              /\ types' = IF call.codec = <<>> THEN types
                          ELSE types @@ (Target :> call.codec[1])
              /\ pc' = IF call.codec = <<>> THEN "aborted" ELSE "expanded"
    /\ UNCHANGED <<platform, inp, buf, outp, slice, pos, writer, reader>>
    /\ UNCHANGED stream

Next ==
    \/ Derive
    \/ Pack
    \/ Unpack
    \/ UnpackSlice
    \/ WriteTo
    \/ ReadFrom

Spec == Init /\ [][Next]_vars

CodecNext ==
    \/ Derive
    \/ Pack
    \/ Unpack

\* The const functions of the codec alone: derive, pack and unpack
CodecSpec == Init /\ [][CodecNext]_vars

\* #[derive(Struct)] on Target for a stream of its values, and Vec::new()
\* for the stream
DeriveStream ==
    /\ pc = "start"
    /\ \E lead \in Leads, codes \in StreamCodeSeqs :
          /\ \A i \in 1..Len(codes) : codes[i].chr = "Ident" => codes[i].name \in DOMAIN types
          /\ format' = [modifier |-> parse_modifier(lead), codes |-> codes]
          /\ types' = types @@ (Target :> derive(format', platform, types))
    /\ writer' = NoWriter
    /\ pc' = "writing"
    /\ UNCHANGED <<platform, inp, buf, outp, slice, pos, reader, res>>
    /\ UNCHANGED <<decl, stream>>

\* Target::write_to(v, &mut writer) for a further value v
StreamWrite ==
    /\ pc = "writing"
    /\ Len(sent) < MaxValues
    /\ \E seed \in Seeds :
          LET v == sample_tuple(types[Target].Unpacked, seed)
              call == write_to(types[Target], platform, types, v, writer)
          IN  /\ inp' = v
              /\ writer' = call.w
              /\ res' = call.res
              /\ sent' = Append(sent, v)
    /\ UNCHANGED <<platform, types, format, buf, outp, pc, slice, pos, reader, rcvd>>
    /\ UNCHANGED decl

\* Target::read_from(&mut rd) on the slice rd = &writer[..] that the reads
\* before left at pos; the reads go on up to the first error
StreamRead ==
    /\ pc \in {"writing", "reading"}
    /\ res \in {"", "Ok"}
    /\ Len(rcvd) <= Len(sent)
    /\ \E call \in read_from(types[Target], platform, types,
                              SubSeq(writer.data, pos + 1, Len(writer.data)), "") :
          /\ res' = call.res
          /\ outp' = call.value
          /\ pos' = pos + call.pos
          /\ rcvd' = IF call.res = "Ok" THEN Append(rcvd, call.value) ELSE rcvd
    /\ pc' = "reading"
    /\ UNCHANGED <<platform, types, format, inp, buf, slice, writer, reader, sent>>
    /\ UNCHANGED decl

StreamNext ==
    \/ DeriveStream
    \/ StreamWrite
    \/ StreamRead

\* Values of a codec written to a stream and read back
StreamSpec == Init /\ [][StreamNext]_vars

\* The derive macro alone, on declarations built from the attributes
MacroNext == DeriveInput

MacroSpec == Init /\ [][MacroNext]_vars

(***************************************************************************)
(* Properties.                                                             *)
(***************************************************************************)
\* The codec generated for Target (once derived)
Codec == types[Target]

Derived == pc \in {"derived", "packed", "unpacked"}

Packed == pc \in {"packed", "unpacked"}

\* The codec of the format string lead ++ codes derived in place of Target
CodecOf(lead, codes) ==
    derive([modifier |-> parse_modifier(lead), codes |-> codes], platform, types)

\* Whether the derived format string selects native mode: '@' or no modifier
NativeMode == format.modifier \in {<<>>, <<"Native">>}

\* The payload bytes of field i of the derived codec
Payload(i) == size_expr(Codec.fields[i], Codec.modifier, platform, types)

\* The natural alignment of the type of field i of the derived codec
NaturalAlignment(i) ==
    align_of(rust_type(platform, types, tipe(Codec.fields[i], native_types(Codec.modifier))))

\* The number of fields format code fc stands for
FieldCount(fc) ==
    IF fc.chr \in {"Array", "Pad"} THEN 1
    ELSE IF fc.repeat = <<>> THEN 1 ELSE Max(1, fc.repeat[1])

\* The index of the first field of format code k
FirstField(codes, k) == 1 + SumSeq([j \in 1..(k - 1) |-> FieldCount(codes[j])])

\* C1: unpacking the bytes pack returned for a value gives that value back
C1_RoundTrip == pc = "unpacked" => outp = inp

\* C1 witness: a round trip through alignment bytes and a nested reference
C1_Witness ==
    /\ pc = "unpacked"
    /\ outp = inp
    /\ Len(inp) = 3
    /\ Codec.fields[2].fmt.kind = "Ident"
    /\ Codec.FIELDS[2].alignment > 0

\* C2: the fields' byte ranges are contiguous from 0, SIZE is the sum of
\* (alignment + payload) over the fields and the end of the last field,
\* and pack returns SIZE bytes
C2_Contiguous ==
    Derived =>
        LET F == Codec.FIELDS
            n == Len(F)
        IN  /\ n = Len(Codec.fields)
            /\ n > 0 => F[1].offset = 0
            /\ \A i \in 2..n : F[i].offset = F[i - 1].offset + F[i - 1].size
            /\ Codec.SIZE = SumSeq([i \in 1..n |-> F[i].alignment + Payload(i)])
            /\ n > 0 => Codec.SIZE = F[n].offset + F[n].size
            /\ Packed => Len(buf) = Codec.SIZE

\* C2 witness: a packed codec with alignment bytes and three fields
C2_Witness ==
    /\ pc = "packed"
    /\ Len(Codec.FIELDS) = 3
    /\ \E i \in 1..3 : Codec.FIELDS[i].alignment > 0
    /\ Len(buf) = Codec.SIZE

\* C3: a field starts where the previous one ends; in native mode its
\* alignment is the least c >= 0 that makes offset + c a multiple of the
\* natural alignment of its type, in the other modes it is 0
C3_Layout ==
    Derived =>
        LET F == Codec.FIELDS
        IN  \A i \in 2..Len(F) :
                /\ F[i].offset = F[i - 1].offset + F[i - 1].size
                /\ IF NativeMode
                   THEN /\ F[i].alignment >= 0
                        /\ F[i].alignment < NaturalAlignment(i)
                        /\ (F[i].offset + F[i].alignment) % NaturalAlignment(i) = 0
                        /\ \A c \in 0..(F[i].alignment - 1) :
                                (F[i].offset + c) % NaturalAlignment(i) # 0
                   ELSE F[i].alignment = 0

\* C3 witness: a native-mode field that needed correction, next to one at
\* an aligned offset that needed none
C3_Witness ==
    /\ Derived
    /\ NativeMode
    /\ Len(Codec.FIELDS) = 3
    /\ Codec.FIELDS[2].alignment > 0
    /\ NaturalAlignment(3) > 1
    /\ Codec.FIELDS[3].alignment = 0

\* The codec of codes under the modifier of the derived format string
CodecWith(codes) ==
    derive([modifier |-> format.modifier, codes |-> codes], platform, types)

\* Format codes of the examples
fc_b == code(<<>>, "Char", "")

fc_i == code(<<>>, "Int", "")

fc_q == code(<<>>, "LongLong", "")

fc_0i == code(<<0>>, "Int", "")

fc_0q == code(<<0>>, "LongLong", "")

fc_bool == code(<<>>, "Bool", "")

\* The number of tuple elements format code fc stands for
ElementCount(fc) ==
    IF fc.chr = "Pad" \/ fc.repeat = <<0>> THEN 0 ELSE FieldCount(fc)

\* C4: in native mode a zero-repeat field has no payload, a size equal to
\* its alignment and no tuple element, and the offset after it is a
\* multiple of the natural alignment of its type; "b0q" has the SIZE 8 of
\* "q" and one element, "=b0q" has SIZE 1, and "bb" < "b0ib" < "bib" in SIZE
C4_ZeroRepeat ==
    /\ (Derived /\ NativeMode) =>
          /\ \A k \in 1..Len(format.codes) :
                format.codes[k].repeat = <<0>> =>
                    LET i == FirstField(format.codes, k)
                        F == Codec.FIELDS[i]
                    IN  /\ F.size = F.alignment
                        /\ ~Codec.fields[i].materialize
                        /\ (F.offset + F.size) % NaturalAlignment(i) = 0
          /\ Len(Codec.Unpacked) =
                SumSeq([k \in 1..Len(format.codes) |-> ElementCount(format.codes[k])])
    /\ pc = "start" => \A lead \in {"", "@"} :
          /\ CodecOf(lead, <<fc_b, fc_0q>>).SIZE = 8
          /\ CodecOf(lead, <<fc_b, fc_0q>>).SIZE = CodecOf(lead, <<fc_q>>).SIZE
          /\ Len(CodecOf(lead, <<fc_b, fc_0q>>).Unpacked) = 1
          /\ CodecOf(lead, <<fc_b, fc_b>>).SIZE < CodecOf(lead, <<fc_b, fc_0i, fc_b>>).SIZE
          /\ CodecOf(lead, <<fc_b, fc_0i, fc_b>>).SIZE < CodecOf(lead, <<fc_b, fc_i, fc_b>>).SIZE
    /\ pc = "start" => CodecOf("=", <<fc_b, fc_0q>>).SIZE = 1

\* C4 witness: "b0q" derived in native mode, the zero-repeat field padding
\* the tail
C4_Witness ==
    /\ Derived
    /\ NativeMode
    /\ format.codes = <<fc_b, fc_0q>>
    /\ Codec.FIELDS[2].alignment = 7
    /\ Codec.FIELDS[2].size = 7
    /\ Len(Codec.Unpacked) = 1

\* C5: in every mode the first field has offset 0 and alignment 0, SIZE
\* ends with the payload of the last field, and SIZE("0ib") = SIZE("b")
C5_NoOuterAlignment ==
    /\ Derived =>
          LET F == Codec.FIELDS
              n == Len(F)
          IN  n > 0 =>
                /\ F[1].offset = 0
                /\ F[1].alignment = 0
                /\ F[1].size = Payload(1)
                /\ Codec.SIZE = F[n].offset + F[n].alignment + Payload(n)
    /\ pc = "start" => \A lead \in Leads :
          CodecOf(lead, <<fc_0i, fc_b>>).SIZE = CodecOf(lead, <<fc_b>>).SIZE

\* C5 witness: a zero-repeat first field of an aligned type, taking 0 bytes
C5_Witness ==
    /\ Derived
    /\ NativeMode
    /\ Len(format.codes) = 2
    /\ format.codes[1] = fc_0q
    /\ Codec.FIELDS[1].size = 0
    /\ Codec.SIZE = Payload(2)
    /\ Codec.SIZE > 0

\* Zero-repeat codes of every kind
ZeroCodes ==
    { fc_0q, code(<<0>>, "Array", ""), code(<<0>>, "Pad", ""), code(<<0>>, "Ident", "Foo") }

InsertAt(s, k, x) == SubSeq(s, 1, k) \o <<x>> \o SubSeq(s, k + 1, Len(s))

\* Whether codec D has the SIZE and the tuple type of the derived codec
\* and, for the value packed and unpacked with the derived codec (both are
\* kept in the unpacked state), the same pack output and unpack result
SameCodec(D) ==
    /\ D.SIZE = Codec.SIZE
    /\ D.Unpacked = Codec.Unpacked
    /\ pack(D, platform, types, inp) = buf
    /\ unpack(D, platform, types, buf) = outp

Unrolled(fc) == Repeated(code(<<>>, fc.chr, fc.name), fc.repeat[1])

\* C7: a scalar, padding or nested code with repeat r >= 1 means the same as
\* the code written r times: same SIZE, tuple type, pack and unpack
C7_RepeatEquivalence ==
    pc = "unpacked" =>
        \A k \in 1..Len(format.codes) :
            LET fc == format.codes[k]
            IN  (fc.repeat # <<>> /\ fc.repeat # <<0>> /\ fc.chr # "Array") =>
                    \A D \in {CodecWith(SubSeq(format.codes, 1, k - 1) \o Unrolled(fc)
                                      \o SubSeq(format.codes, k + 1, Len(format.codes)))} :
                        SameCodec(D)

\* C7 witness: repeated padding and a repeated nested reference, unpacked
C7_Witness ==
    /\ pc = "unpacked"
    /\ format.codes = <<code(<<2>>, "Pad", ""), code(<<2>>, "Ident", "BottomTurtle")>>
    /\ Len(outp) = 2
    /\ Codec.SIZE = 2 + 2 * types["BottomTurtle"].SIZE

\* C8: each scalar or nested code with repeat r expands into max(1, r)
\* fields with materialize = (r # 0), each 's' or 'x' code into one field
\* of byte length r (1 without repeat); "3s?" is ([u8; 3], bool) and "3f?"
\* is (f32, f32, f32, bool)
C8_Expansion ==
    /\ Derived =>
          /\ Len(Codec.fields) =
                SumSeq([k \in 1..Len(format.codes) |-> FieldCount(format.codes[k])])
          /\ \A k \in 1..Len(format.codes) :
                LET fc == format.codes[k]
                    first == FirstField(format.codes, k)
                IN  IF fc.chr \in {"Array", "Pad"}
                    THEN /\ Codec.fields[first].fmt.kind = fc.chr
                         /\ Codec.fields[first].fmt.sz = (IF fc.repeat = <<>> THEN 1 ELSE fc.repeat[1])
                    ELSE \A i \in first..(first + FieldCount(fc) - 1) :
                            /\ Codec.fields[i].fmt.kind = fc.chr
                            /\ Codec.fields[i].fmt.ident = fc.name
                            /\ Codec.fields[i].materialize = (fc.repeat # <<0>>)
    /\ pc = "start" =>
       LET array3 == [kind |-> "array", signed |-> FALSE, width |-> 3, elems |-> <<>>]
           bool == [kind |-> "bool", signed |-> FALSE, width |-> 1, elems |-> <<>>]
           f32 == [kind |-> "float", signed |-> FALSE, width |-> 4, elems |-> <<>>]
       IN  /\ CodecOf("<", <<code(<<3>>, "Array", ""), fc_bool>>).Unpacked = <<array3, bool>>
           /\ CodecOf("<", <<code(<<3>>, "Float", ""), fc_bool>>).Unpacked = <<f32, f32, f32, bool>>

\* C8 witness: a repeated scalar expanded into two fields after an array
\* code that stayed one field
C8_Witness ==
    /\ Derived
    /\ format.codes = <<code(<<3>>, "Array", ""), code(<<2>>, "Short", "")>>
    /\ Len(Codec.fields) = 3
    /\ Codec.fields[1].fmt.sz = 3
    /\ Len(Codec.Unpacked) = 3

\* C9: a "0s" code materializes: its field has materialize = TRUE and the
\* tuple has a zero-length array element for it, while it adds no bytes
C9_EmptyArrayMaterializes ==
    Derived =>
        \A k \in 1..Len(format.codes) :
            format.codes[k] = code(<<0>>, "Array", "") =>
                LET i == FirstField(format.codes, k)
                IN  /\ Codec.fields[i].materialize
                    /\ \E j \in 1..Len(Codec.Unpacked) :
                            Codec.Unpacked[j].kind = "array" /\ Codec.Unpacked[j].width = 0
                    /\ Codec.FIELDS[i].size = Codec.FIELDS[i].alignment

\* The bytes of the packed buffer at the offsets from (inclusive) to to
\* (exclusive) are all 0
ZeroBetween(from, to) == \A j \in (from + 1)..to : buf[j] = 0

\* C10: every byte pack returns in an 'x' field or in the alignment bytes
\* of a field is 0; a format of padding only packs to SIZE zero bytes
C10_PaddingIsZero ==
    Packed =>
        /\ \A i \in 1..Len(Codec.FIELDS) :
              LET F == Codec.FIELDS[i]
              IN  /\ ZeroBetween(F.offset, F.offset + F.alignment)
                  /\ Codec.fields[i].fmt.kind = "Pad" =>
                        ZeroBetween(F.offset + F.alignment, F.offset + F.size)
        /\ (\A k \in 1..Len(format.codes) : format.codes[k].chr = "Pad") =>
              buf = Zeros(Codec.SIZE)

\* C10 witness: a packed buffer with padding, alignment bytes and a payload
\* that is not zero
C10_Witness ==
    /\ pc = "packed"
    /\ Len(format.codes) = 2
    /\ format.codes[1].chr = "Pad"
    /\ Codec.FIELDS[1].size > 0
    /\ Codec.FIELDS[2].alignment > 0
    /\ \E j \in 1..Len(buf) : buf[j] # 0

\* The indices of the fields of the derived codec that materialize
Materialized == {i \in 1..Len(Codec.fields) : Codec.fields[i].materialize}

\* The position in the tuple of the element of materialized field i
Rank(i) == Cardinality({j \in Materialized : j <= i})

\* The payload region of field i in the bytes b
RegionOf(b, i) ==
    Slice(b, Codec.FIELDS[i].offset + Codec.FIELDS[i].alignment,
             Codec.FIELDS[i].offset + Codec.FIELDS[i].size)

\* The payload region of field i in the packed buffer
Region(i) == RegionOf(buf, i)

\* The Rust type of field i of the derived codec
FieldType(i) == rust_type(platform, types, tipe(Codec.fields[i], native_types(Codec.modifier)))

\* C11: the tuple has one element per materialized field, in field order,
\* none for padding or zero-repeat codes; pack encodes element k into the
\* payload region of the k-th materialized field and unpack decodes it from
\* there; "?2x?" is (bool, bool) over 4 bytes
C11_Materialized ==
    /\ Derived =>
          /\ Len(Codec.Unpacked) = Cardinality(Materialized)
          /\ \A i \in Materialized : Codec.Unpacked[Rank(i)] = FieldType(i)
          /\ \A k \in 1..Len(format.codes) :
                LET fc == format.codes[k]
                    first == FirstField(format.codes, k)
                IN  \A i \in first..(first + FieldCount(fc) - 1) :
                        (i \in Materialized) = ~(fc.chr = "Pad" \/ fc.repeat = <<0>>)
    /\ pc = "packed" =>
          /\ Len(inp) = Cardinality(Materialized)
          /\ \A i \in Materialized :
                Region(i) = pack_expr(Codec.fields[i], Codec.modifier, platform, types, inp[Rank(i)])
    /\ pc = "unpacked" =>
          /\ Len(outp) = Cardinality(Materialized)
          /\ \A i \in Materialized :
                outp[Rank(i)] = unpack_expr(Codec.fields[i], Codec.modifier, platform, types, Region(i))
    /\ pc = "start" => \A lead \in Leads :
          LET D == CodecOf(lead, <<fc_bool, code(<<2>>, "Pad", ""), fc_bool>>)
              bool == [kind |-> "bool", signed |-> FALSE, width |-> 1, elems |-> <<>>]
          IN  /\ D.Unpacked = <<bool, bool>>
              /\ D.SIZE = 4
              /\ Len(pack(D, platform, types, <<TRUE, FALSE>>)) = 4

\* C11 witness: a value unpacked from behind two padding bytes, the only
\* element of the tuple
C11_Witness ==
    /\ pc = "unpacked"
    /\ Len(Codec.fields) = 2
    /\ Codec.fields[1].fmt.kind = "Pad"
    /\ Materialized = {2}
    /\ Rank(2) = 1
    /\ Codec.FIELDS[2].offset = 2
    /\ outp = inp
    /\ Len(outp) = 1

\* The materialized '?' fields of the derived codec
BoolFields == {i \in Materialized : Codec.fields[i].fmt.kind = "Bool"}

\* C12: a '?' field has 1 payload byte in every mode; pack writes 1 for
\* true and 0 for false; unpack gives false for the byte 0 and true for
\* each of the bytes 1..255
C12_Bool ==
    /\ Derived =>
          \A i \in BoolFields :
              /\ Payload(i) = 1
              /\ Codec.FIELDS[i].size - Codec.FIELDS[i].alignment = 1
    /\ Packed =>
          \A i \in BoolFields : Region(i) = <<IF inp[Rank(i)] THEN 1 ELSE 0>>
    /\ pc = "unpacked" =>
          \A i \in BoolFields : outp[Rank(i)] = (Region(i)[1] # 0)
    /\ (pc \in {"sliced", "read"} /\ res = "Ok") =>
          \A i \in BoolFields : outp[Rank(i)] = (RegionOf(slice, i)[1] # 0)
    /\ pc = "start" => \A lead \in Leads :
          /\ CodecOf(lead, <<fc_bool>>).SIZE = 1
          /\ pack(CodecOf(lead, <<fc_bool>>), platform, types, <<TRUE>>) = <<1>>
          /\ pack(CodecOf(lead, <<fc_bool>>), platform, types, <<FALSE>>) = <<0>>
          /\ \A x \in 0..255 :
                unpack(CodecOf(lead, <<fc_bool>>), platform, types, <<x>>) = <<x # 0>>

\* C12 witness: read_from over bytes of another producer, a true bool read
\* from the byte 77 and a false one from the byte 0
C12_Witness ==
    /\ pc = "read"
    /\ res = "Ok"
    /\ format.codes = <<fc_bool, fc_bool>>
    /\ slice = <<77, 0, 255, 255>>
    /\ outp = <<TRUE, FALSE>>

\* 256^k for the low four bytes
Pow256(k) == CASE k = 0 -> 1 [] k = 1 -> 256 [] k = 2 -> 65536 [] k = 3 -> 16777216

\* Byte k (0 the least significant) of the two's complement of a value v of
\* 32 bits or less: from byte 4 on it is the sign extension
ByteOf(v, k) ==
    IF k >= 4 THEN (IF v < 0 THEN 255 ELSE 0) ELSE (v \div Pow256(k)) % 256

\* The two's complement of v in width bytes, least significant byte first
LittleEndianBytes(v, width) == [k \in 1..width |-> ByteOf(v, k - 1)]

\* The bytes of s in the opposite order
Backwards(s) == [k \in 1..Len(s) |-> s[Len(s) + 1 - k]]

\* The materialized integer and float fields of the derived codec
NumberFields == {i \in Materialized : FieldType(i).kind \in {"int", "float"}}

\* C13: the payload of an integer or float field is the two's complement
\* (the bit pattern of a float) at the width of the field, least significant
\* byte first under '<', the reverse of that under '>' and '!', in platform
\* order under '=' and '@'; arrays are copied; under '<' -7 is [F9], 700 is
\* [BC 02] and 70000000 is [80 1D 2C 04]
C13_ByteOrder ==
    /\ pc = "packed" =>
          /\ \A i \in NumberFields :
                LET le == LittleEndianBytes(inp[Rank(i)], FieldType(i).width)
                    be == Backwards(le)
                IN  /\ Len(Region(i)) = FieldType(i).width
                    /\ Region(i) =
                          CASE format.modifier = <<"LittleEndian">> -> le
                            [] format.modifier = <<"BigEndian">> -> be
                            [] OTHER -> IF platform.big THEN be ELSE le
          /\ \A i \in Materialized :
                FieldType(i).kind = "array" => Region(i) = inp[Rank(i)]
    /\ (pc = "packed" /\ format.modifier = <<"BigEndian">>) =>
          LET D == CodecOf("<", format.codes)
              L == pack(D, platform, types, inp)
          IN  /\ D.FIELDS = Codec.FIELDS
              /\ \A i \in NumberFields :
                    Region(i) = Backwards(Slice(L, D.FIELDS[i].offset, D.FIELDS[i].offset + D.FIELDS[i].size))
    /\ pc = "start" =>
          /\ pack(CodecOf("<", <<fc_b>>), platform, types, <<-7>>) = <<249>>
          /\ pack(CodecOf("<", <<code(<<>>, "UShort", "")>>), platform, types, <<700>>) = <<188, 2>>
          /\ pack(CodecOf("<", <<fc_i>>), platform, types, <<70000000>>) = <<128, 29, 44, 4>>
          /\ pack(CodecOf(">", <<fc_i>>), platform, types, <<70000000>>) = <<4, 44, 29, 128>>
          /\ pack(CodecOf("!", <<fc_i>>), platform, types, <<70000000>>) = <<4, 44, 29, 128>>
          /\ pack(CodecOf("<", <<code(<<>>, "Float", "")>>), platform, types, <<1078530011>>)
                = <<219, 15, 73, 64>>
          /\ pack(CodecOf("<", <<code(<<3>>, "Array", "")>>), platform, types, <<(<<170, 187, 204>>)>>)
                = <<170, 187, 204>>
          /\ pack(CodecOf(">", <<code(<<3>>, "Array", "")>>), platform, types, <<(<<170, 187, 204>>)>>)
                = <<170, 187, 204>>

\* C13 witness: -700 packed most significant byte first next to a float
C13_Witness ==
    /\ pc = "packed"
    /\ format.modifier = <<"BigEndian">>
    /\ format.codes = <<code(<<2>>, "Short", ""), code(<<>>, "Float", "")>>
    /\ inp[1] = -700
    /\ Region(1) = <<253, 68>>
    /\ NumberFields = {1, 2, 3}
    /\ Region(3) # Backwards(Region(3))

\* The payload width the format characters table gives for the standard
\* modes
StdWidth(kind) ==
    CASE kind \in {"Char", "UChar"} -> 1
      [] kind \in {"Short", "UShort"} -> 2
      [] kind \in {"Int", "UInt", "Long", "ULong", "Float"} -> 4
      [] kind \in {"LongLong", "ULongLong", "Double"} -> 8

FixedKinds ==
    {"Char", "UChar", "Short", "UShort", "Int", "UInt", "Long", "ULong",
     "LongLong", "ULongLong", "Float", "Double"}

PointerSizedKinds == {"Size", "USize"}

StandardLeads == {"=", "<", ">", "!"}

\* The codec of the format string lead ++ codes derived on platform p
CodecOn(p, lead, codes) ==
    derive([modifier |-> parse_modifier(lead), codes |-> codes], p, derive_all(Library, p, <<>>))

\* The payload width of field i of the derived codec, were it derived on
\* platform p
WidthOn(p, i) == rust_type(p, types, tipe(Codec.fields[i], native_types(Codec.modifier))).width

\* C14 as claimed: in the standard modes every integer and float field, 'n'
\* and 'N' included, has the same payload width on every platform, and the
\* characters of the table have the width of the table
C14_StandardWidths ==
    (Derived /\ ~NativeMode) =>
        \A i \in NumberFields :
            /\ \A p \in Platforms : WidthOn(p, i) = Payload(i)
            /\ Codec.fields[i].fmt.kind \in FixedKinds =>
                    Payload(i) = StdWidth(Codec.fields[i].fmt.kind)

\* C14 amended: in the standard modes every integer and float field but 'n'
\* and 'N' has the width of the table on every platform; 'n' and 'N' have
\* the width of a pointer of the platform
C14_StandardWidthsButPointerSized ==
    /\ (Derived /\ ~NativeMode) =>
          \A i \in NumberFields :
              IF Codec.fields[i].fmt.kind \in PointerSizedKinds
              THEN Payload(i) = platform.ptr
              ELSE /\ Payload(i) = StdWidth(Codec.fields[i].fmt.kind)
                   /\ \A p \in Platforms : WidthOn(p, i) = Payload(i)
    /\ pc = "start" => \A lead \in StandardLeads, p \in Platforms :
          /\ \A kind \in FixedKinds :
                CodecOn(p, lead, <<code(<<>>, kind, "")>>).SIZE = StdWidth(kind)
          /\ \A kind \in PointerSizedKinds :
                CodecOn(p, lead, <<code(<<>>, kind, "")>>).SIZE = p.ptr

\* C14 witness: "n" next to "f" in a standard mode on the platform with
\* pointers of 4 bytes
C14_Witness ==
    /\ Derived
    /\ ~NativeMode
    /\ format.codes = <<code(<<>>, "Size", ""), code(<<>>, "Float", "")>>
    /\ platform.ptr = 4
    /\ Codec.FIELDS[1].size = 4
    /\ Codec.FIELDS[2].size = 4
    /\ \E p \in Platforms : WidthOn(p, 1) = 8

\* The width of the C type behind an integer or float kind on the platform
NativeWidth(kind) ==
    CASE kind \in {"Long", "ULong"} -> platform.long
      [] kind \in PointerSizedKinds -> platform.ptr
      [] OTHER -> StdWidth(kind)

\* Whether the payload of number field i is packed most significant byte
\* first: its first byte is then the byte of the highest order
MostSignificantFirst(i) ==
    Region(i)[1] = ByteOf(inp[Rank(i)], FieldType(i).width - 1)

\* C15: no leading character or '@' selects native byte order, native
\* widths and alignment; '=' native byte order, '<' little-endian, '>' and
\* '!' big-endian, all three with standard widths and no alignment; '>' and
\* '!' give the same SIZE, pack and unpack
C15_Modes ==
    /\ pc = "start" => \A lead \in Leads :
          LET m == unwrap_or(parse_modifier(lead), Modifier_default)
          IN  /\ native_types(m) = (lead \in {"", "@"})
              /\ byte_order(m) =
                    CASE lead \in {"", "@", "="} -> "Native"
                      [] lead = "<" -> "LittleEndian"
                      [] lead \in {">", "!"} -> "BigEndian"
    /\ pc = "start" =>
          /\ CodecOf("", <<fc_b, fc_q>>).SIZE = 16
          /\ CodecOf("@", <<fc_b, fc_q>>).SIZE = 16
          /\ \A lead \in StandardLeads : CodecOf(lead, <<fc_b, fc_q>>).SIZE = 9
          /\ CodecOf("", <<code(<<>>, "Long", "")>>).SIZE = platform.long
          /\ CodecOf("@", <<code(<<>>, "Long", "")>>).SIZE = platform.long
          /\ \A lead \in StandardLeads : CodecOf(lead, <<code(<<>>, "Long", "")>>).SIZE = 4
    /\ pc = "derived" =>
          /\ CodecOf("", format.codes) = CodecOf("@", format.codes)
          /\ CodecOf(">", format.codes) = CodecOf("!", format.codes)
          /\ \E lead \in Leads : CodecOf(lead, format.codes) = Codec
    /\ pc = "derived" =>
          /\ native_types(Codec.modifier) = NativeMode
          /\ \A i \in NumberFields :
                Payload(i) = IF NativeMode THEN NativeWidth(Codec.fields[i].fmt.kind)
                             ELSE IF Codec.fields[i].fmt.kind \in PointerSizedKinds
                                  THEN platform.ptr
                                  ELSE StdWidth(Codec.fields[i].fmt.kind)
          /\ \A i \in 2..Len(Codec.FIELDS) :
                Codec.FIELDS[i].alignment =
                    IF NativeMode
                    THEN (NaturalAlignment(i) - (Codec.FIELDS[i].offset % NaturalAlignment(i)))
                            % NaturalAlignment(i)
                    ELSE 0
    /\ pc = "packed" =>
          \A i \in NumberFields :
              (Region(i) = Backwards(LittleEndianBytes(inp[Rank(i)], FieldType(i).width))) =
                  CASE format.modifier = <<"BigEndian">> -> TRUE
                    [] format.modifier = <<"LittleEndian">> -> FieldType(i).width = 1
                    [] OTHER -> platform.big \/ FieldType(i).width = 1
    /\ (pc = "unpacked" /\ format.modifier = <<"BigEndian">>) =>
          /\ pack(CodecOf(">", format.codes), platform, types, inp) = buf
          /\ pack(CodecOf("!", format.codes), platform, types, inp) = buf
          /\ unpack(CodecOf(">", format.codes), platform, types, buf) = outp
          /\ unpack(CodecOf("!", format.codes), platform, types, buf) = outp

\* C15 witness: a format string without a leading character, packed with
\* alignment bytes in platform byte order next to the same codes in a
\* standard mode
C15_Witness ==
    /\ pc = "packed"
    /\ format.modifier = <<>>
    /\ Codec.modifier = "Native"
    /\ format.codes = <<fc_b, code(<<2>>, "Short", "")>>
    /\ Codec.FIELDS[2].alignment = 1
    /\ Codec.SIZE = 6
    /\ CodecOf("=", format.codes).SIZE = 5
    /\ MostSignificantFirst(2) = platform.big

\* The format code "2`name`"
Twice(name) == code(<<2>>, "Ident", name)

\* The alignment of the unpacked tuple type of the codec c
TupleAlignment(c) ==
    align_of([kind |-> "tuple", signed |-> FALSE, width |-> 0, elems |-> c.Unpacked])

\* The least a >= 0 that makes n + a a multiple of al
Correction(n, al) == (al - (n % al)) % al

\* The codec "=i3s" of the nested_size test, derived as Baz
WithBaz == types @@ ("Baz" :> CodecOf("=", <<fc_i, code(<<3>>, "Array", "")>>))

\* C16 as claimed: "2`Foo`" has SIZE = 2 * SIZE(Foo) with every modifier
\* and with none
C16_NestedMultiplication ==
    Derived =>
        \A name \in DOMAIN types :
            format.codes = <<Twice(name)>> => Codec.SIZE = 2 * types[name].SIZE

\* C16 amended: "2`Foo`" has SIZE = 2 * SIZE(Foo) in the modes '=', '<',
\* '>' and '!'; in native mode it has SIZE = 2 * SIZE(Foo) + a, with a the
\* least correction that aligns SIZE(Foo) to the unpacked tuple of Foo
C16_NestedMultiplicationAligned ==
    /\ Derived =>
          \A name \in DOMAIN types :
              format.codes = <<Twice(name)>> =>
                  Codec.SIZE = 2 * types[name].SIZE +
                      (IF NativeMode
                       THEN Correction(types[name].SIZE, TupleAlignment(types[name]))
                       ELSE 0)
    /\ pc = "start" =>
          /\ \A name \in DOMAIN types :
                /\ \A lead \in StandardLeads :
                      CodecOf(lead, <<Twice(name)>>).SIZE = 2 * types[name].SIZE
                /\ \A lead \in {"", "@"} :
                      CodecOf(lead, <<Twice(name)>>).SIZE =
                          2 * types[name].SIZE
                              + Correction(types[name].SIZE, TupleAlignment(types[name]))
          /\ WithBaz["Baz"].SIZE = 7
          /\ derive([modifier |-> <<"NativeStandard">>, codes |-> <<Twice("Baz")>>],
                    platform, WithBaz).SIZE = 14
          /\ derive([modifier |-> <<>>, codes |-> <<Twice("Baz")>>],
                    platform, WithBaz).SIZE = 15

\* C16 witness: "2`BottomTurtle`" in native mode, with alignment bytes
\* between the two nested tuples
C16_Witness ==
    /\ Derived
    /\ NativeMode
    /\ format.codes = <<Twice("BottomTurtle")>>
    /\ Codec.FIELDS[2].alignment > 0
    /\ Codec.SIZE > 2 * types["BottomTurtle"].SIZE

\* The materialized nested-reference fields of the derived codec
IdentFields == {i \in Materialized : Codec.fields[i].fmt.kind = "Ident"}

\* The codec field i of the derived codec refers to
Referenced(i) == types[Codec.fields[i].fmt.ident]

\* The bytes of a value v of Foo ("<b2i"): little-endian without alignment
FooBytes(v) ==
    LittleEndianBytes(v[1], 1) \o LittleEndianBytes(v[2], 4) \o LittleEndianBytes(v[3], 4)

\* The bytes of a value v of BottomTurtle ("L1`MostBottomTurtle`"): a C
\* unsigned long in platform order and two bools
TurtleBytes(v) ==
    (IF platform.big
     THEN Backwards(LittleEndianBytes(v[1], platform.long))
     ELSE LittleEndianBytes(v[1], platform.long))
        \o <<IF v[2][1] THEN 1 ELSE 0, IF v[2][2] THEN 1 ELSE 0>>

\* C17: a nested-reference field has the SIZE of the referenced codec as
\* payload size and its tuple type as element type; its payload is the
\* referenced codec's pack of the element, its element the referenced
\* codec's unpack of the payload; a BottomTurtle keeps the platform order
\* and the native widths and a Foo ("<b2i") is little-endian under every
\* outer modifier
C17_Nested ==
    /\ pc = "derived" =>
          \A i \in IdentFields :
              /\ Payload(i) = Referenced(i).SIZE
              /\ Codec.FIELDS[i].size - Codec.FIELDS[i].alignment = Referenced(i).SIZE
              /\ Codec.Unpacked[Rank(i)].kind = "tuple"
              /\ Codec.Unpacked[Rank(i)].elems = Referenced(i).Unpacked
    /\ pc = "packed" =>
          \A i \in IdentFields :
              /\ Region(i) = pack(Referenced(i), platform, types, inp[Rank(i)])
              /\ Codec.fields[i].fmt.ident = "BottomTurtle" =>
                    Region(i) = TurtleBytes(inp[Rank(i)])
    /\ pc = "unpacked" =>
          \A i \in IdentFields :
              outp[Rank(i)] = unpack(Referenced(i), platform, types, Region(i))
    /\ pc = "start" => \A lead \in Leads :
          LET D == CodecOf(lead, <<code(<<>>, "Ident", "Foo"), fc_i>>)
              v == <<(<<-7, 70000000, -70000000>>), 70000000>>
              b == pack(D, platform, types, v)
          IN  /\ SubSeq(b, 1, 9) = FooBytes(v[1])
              /\ SubSeq(b, 1, 9) = <<249, 128, 29, 44, 4, 128, 226, 211, 251>>
              /\ unpack(D, platform, types, b) = v

\* C17 witness: two little-endian BottomTurtles with a long of 8 bytes in
\* front of big-endian shorts
C17_Witness ==
    /\ pc = "unpacked"
    /\ format.modifier = <<"BigEndian">>
    /\ ~platform.big
    /\ format.codes = <<Twice("BottomTurtle"), code(<<2>>, "Short", "")>>
    /\ IdentFields = {1, 2}
    /\ inp[2][1] = 70000000
    /\ Region(2) = <<128, 29, 44, 4, 0, 0, 0, 0, 1, 0>>
    /\ inp[4] = 700
    /\ Region(4) = <<2, 188>>
    /\ outp = inp

\* C18: the format string "" compiles to SIZE = 0, an empty FIELDS table
\* and the unit tuple, and pack(()) returns no bytes
C18_EmptyFormat ==
    /\ (Derived /\ format = NoFormat) =>
          /\ Codec.SIZE = 0
          /\ Codec.FIELDS = <<>>
          /\ Codec.fields = <<>>
          /\ Codec.Unpacked = <<>>
    /\ (Packed /\ format = NoFormat) =>
          /\ inp = <<>>
          /\ buf = <<>>
          /\ Len(buf) = Codec.SIZE
    /\ (pc = "unpacked" /\ format = NoFormat) => outp = <<>>

\* C18 witness: the unit tuple packed by the codec of the empty format
C18_Witness ==
    /\ pc = "packed"
    /\ format = NoFormat
    /\ Codec.SIZE = 0
    /\ inp = <<>>
    /\ buf = <<>>

\* Bytes put behind the first SIZE bytes of a slice
Tails == {<<>>, <<1, 2, 3>>}

\* C19: unpack_slice panics on a slice shorter than SIZE, with no value
\* and no byte read; on any other slice it returns unpack of the first
\* SIZE bytes, whatever follows them; ">hh" gives (1, 2) for
\* [0, 1, 0, 2, 255, 255, 255, 255] and panics for [0, 1, 0]
C19_UnpackSlice ==
    /\ pc = "sliced" =>
          IF Len(slice) < Codec.SIZE
          THEN /\ res = "panic"
               /\ outp = <<>>
               /\ pos = 0
          ELSE /\ res = "Ok"
               /\ pos = Codec.SIZE
               /\ pos <= Len(slice)
               /\ outp = unpack(Codec, platform, types, SubSeq(slice, 1, Codec.SIZE))
               /\ SubSeq(slice, 1, Codec.SIZE) = buf => outp = inp
               /\ \A t \in Tails :
                     LET call == unpack_slice(Codec, platform, types, SubSeq(slice, 1, Codec.SIZE) \o t)
                     IN  call.res = "Ok" /\ call.value = outp
    /\ pc = "start" =>
          LET hh == CodecOf(">", <<code(<<2>>, "Short", "")>>)
          IN  /\ unpack_slice(hh, platform, types, <<0, 1, 0, 2, 255, 255, 255, 255>>).res = "Ok"
              /\ unpack_slice(hh, platform, types, <<0, 1, 0, 2, 255, 255, 255, 255>>).value = <<1, 2>>
              /\ unpack_slice(hh, platform, types, <<0, 1, 0>>).res = "panic"

\* C19 witness: unpack_slice on a slice one byte short of SIZE
C19_Witness ==
    /\ pc = "sliced"
    /\ Codec.SIZE > 1
    /\ Len(slice) = Codec.SIZE - 1
    /\ res = "panic"
    /\ outp = <<>>
    /\ Len(inp) > 0

\* Whether s is a proper prefix of t
ProperPrefix(s, t) == Len(s) < Len(t) /\ s = SubSeq(t, 1, Len(s))

\* The codec, value and packed bytes of the io test: "<iihf3s2?"
IoCodec ==
    CodecOf("<", <<code(<<2>>, "Int", ""), code(<<>>, "Short", ""), code(<<>>, "Float", ""),
                   code(<<3>>, "Array", ""), code(<<2>>, "Bool", "")>>)

IoValue == <<287454020, 1144201745, 21862, 1078530011, <<170, 187, 204>>, TRUE, FALSE>>

IoBytes == <<68, 51, 34, 17, 17, 34, 51, 68, 102, 85, 219, 15, 73, 64, 170, 187, 204, 1, 0>>

\* C20: write_to gives the writer exactly the SIZE bytes of pack(v) and
\* returns Ok, or returns the error of the writer; read_from consumes
\* exactly SIZE bytes and returns Ok(unpack of them), or returns the error
\* of the reader, or UnexpectedEof when fewer than SIZE bytes are left, and
\* then no value
C20_Io ==
    /\ pc = "written" =>
          /\ res = "Ok" =>
                /\ writer.data = buf
                /\ Len(writer.data) = Codec.SIZE
          /\ res # "Ok" =>
                /\ res = writer.error
                /\ res = "WriteZero"
                /\ ProperPrefix(writer.data, buf)
          /\ writer.error = "" => res = "Ok"
    /\ pc = "read" =>
          /\ (reader = "" /\ Len(slice) >= Codec.SIZE) =>
                /\ res = "Ok"
                /\ pos = Codec.SIZE
                /\ outp = unpack(Codec, platform, types, SubSeq(slice, 1, Codec.SIZE))
                /\ SubSeq(slice, 1, Codec.SIZE) = buf => outp = inp
          /\ (reader = "" /\ Len(slice) < Codec.SIZE) =>
                /\ res = "UnexpectedEof"
                /\ outp = <<>>
                /\ pos <= Len(slice)
          /\ (reader # "" /\ Codec.SIZE > 0) =>
                /\ res = reader
                /\ outp = <<>>
                /\ pos = 0
          /\ res = "Ok" => pos = Codec.SIZE
    /\ pc = "start" =>
          /\ IoCodec.SIZE = 19
          /\ write_to(IoCodec, platform, types, IoValue, NoWriter).res = "Ok"
          /\ write_to(IoCodec, platform, types, IoValue, NoWriter).w.data = IoBytes
          /\ read_from(IoCodec, platform, types, IoBytes, "")
                = {[res |-> "Ok", value |-> IoValue, pos |-> 19]}

\* C20 witness: write_to on a writer one byte too small, the error of the
\* writer returned after SIZE - 1 bytes
C20_Witness ==
    /\ pc = "written"
    /\ Codec.SIZE > 1
    /\ res = "WriteZero"
    /\ writer.error = "WriteZero"
    /\ Len(writer.data) = Codec.SIZE - 1
    /\ ProperPrefix(writer.data, buf)

\* The bytes of field i of the derived codec in the packed buffer, from
\* FIELDS[i].1 on for FIELDS[i].3 bytes
Entry(i) == Slice(buf, Codec.FIELDS[i].offset, Codec.FIELDS[i].offset + Codec.FIELDS[i].size)

\* C24: FIELDS has one entry per field the codes expand into, in their
\* order, padding and zero-repeat fields included ("=0b0i": 2 entries,
\* SIZE 0); the size of an entry is its alignment plus the payload bytes,
\* its offset the end of the entry before, and offset, alignment and size
\* bound the bytes pack writes and unpack reads for the field
C24_FieldsTable ==
    /\ pc = "derived" =>
          /\ Len(Codec.FIELDS) = SumSeq([k \in 1..Len(format.codes) |-> FieldCount(format.codes[k])])
          /\ \A k \in 1..Len(format.codes) :
                LET first == FirstField(format.codes, k)
                IN  \A i \in first..(first + FieldCount(format.codes[k]) - 1) :
                        /\ Codec.fields[i].fmt = Format_from(format.codes[k])
                        /\ Codec.FIELDS[i].tipe = tipe(Codec.fields[i], NativeMode)
          /\ \A i \in 1..Len(Codec.FIELDS) :
                /\ Codec.FIELDS[i].size = Codec.FIELDS[i].alignment + Payload(i)
                /\ Codec.FIELDS[i].offset =
                      IF i = 1 THEN 0 ELSE Codec.FIELDS[i - 1].offset + Codec.FIELDS[i - 1].size
    /\ pc = "packed" =>
          \A i \in 1..Len(Codec.FIELDS) :
              Entry(i) = Zeros(Codec.FIELDS[i].alignment) \o
                         (IF i \in Materialized
                          THEN pack_expr(Codec.fields[i], Codec.modifier, platform, types,
                                         inp[Rank(i)])
                          ELSE Zeros(Codec.FIELDS[i].size - Codec.FIELDS[i].alignment))
    /\ pc = "unpacked" =>
          \A i \in Materialized :
              outp[Rank(i)] =
                  unpack_expr(Codec.fields[i], Codec.modifier, platform, types,
                              SubSeq(Entry(i), Codec.FIELDS[i].alignment + 1, Codec.FIELDS[i].size))
    /\ pc = "start" =>
          LET D == CodecOf("=", <<code(<<0>>, "Char", ""), code(<<0>>, "Int", "")>>)
          IN  /\ Len(D.FIELDS) = 2
              /\ D.FIELDS[1].tipe.name = "i8" /\ D.FIELDS[2].tipe.name = "i32"
              /\ D.FIELDS[1].size = 0 /\ D.FIELDS[2].size = 0
              /\ D.SIZE = 0
              /\ D.Unpacked = <<>>
              /\ pack(D, platform, types, <<>>) = <<>>

\* C24 witness: the two entries of "2x0q" in native mode on x86_64, the
\* second with 6 alignment bytes and no payload, and no element unpacked
C24_Witness ==
    /\ pc = "unpacked"
    /\ NativeMode
    /\ platform.ptr = 8
    /\ format.codes = <<code(<<2>>, "Pad", ""), fc_0q>>
    /\ Len(Codec.FIELDS) = 2
    /\ Codec.FIELDS[1].size = 2
    /\ Codec.FIELDS[2].offset = 2
    /\ Codec.FIELDS[2].alignment = 6
    /\ Codec.FIELDS[2].size = 6
    /\ Entry(2) = Zeros(6)
    /\ Codec.SIZE = 8
    /\ outp = <<>>

\* Whether every field of the codec B gets at offset base + o the alignment
\* it has in B at its offset o
SameAlignmentFrom(B, base) ==
    \A j \in 1..Len(B.fields) :
        align(rust_type(platform, types, tipe(B.fields[j], native_types(B.modifier))),
              base + B.FIELDS[j].offset) = B.FIELDS[j].alignment

\* C25: for every split of the codes into A then B, SIZE is SIZE(A) +
\* SIZE(B) under '=', '<', '>' and '!', and in native mode whenever every
\* field of B gets at SIZE(A) + o the alignment it gets at o
C25_SizeComposition ==
    pc = "derived" =>
        \A k \in 0..Len(format.codes) :
            LET A == CodecWith(SubSeq(format.codes, 1, k))
                B == CodecWith(SubSeq(format.codes, k + 1, Len(format.codes)))
            IN  (~NativeMode \/ SameAlignmentFrom(B, A.SIZE)) =>
                    Codec.SIZE = A.SIZE + B.SIZE

\* C25 witness: "2h" behind "b" in a standard mode, 1 + 4 bytes
C25_Witness ==
    /\ pc = "derived"
    /\ ~NativeMode
    /\ format.codes = <<fc_b, code(<<2>>, "Short", "")>>
    /\ CodecWith(<<fc_b>>).SIZE = 1
    /\ CodecWith(<<code(<<2>>, "Short", "")>>).SIZE = 4
    /\ Codec.SIZE = 5

\* What each of the SIZE packed bytes of codec c is: an alignment or
\* padding byte, the byte of a bool, a byte of a byte array, or a byte of a
\* number; the bytes of a nested reference are those of its codec
RECURSIVE ByteRoles(_)
ByteRoles(c) ==
    LET payload(i) ==
            LET f == c.fields[i]
                n == c.FIELDS[i].size - c.FIELDS[i].alignment
            IN  CASE ~f.materialize -> Repeated("gap", n)
                  [] f.fmt.kind = "Bool" -> <<"bool">>
                  [] f.fmt.kind = "Array" -> Repeated("bytes", n)
                  [] f.fmt.kind = "Ident" -> ByteRoles(types[f.fmt.ident])
                  [] OTHER -> Repeated("number", n)
    IN  Flatten([i \in 1..Len(c.fields) |->
                    Repeated("gap", c.FIELDS[i].alignment) \o payload(i)])

\* The bytes b, of the roles given, with every alignment and padding byte
\* replaced by g
Garbled(roles, b, g) ==
    [j \in 1..Len(b) |-> IF roles[j] = "gap" THEN g ELSE b[j]]

\* Bytes of another producer for the packed bytes b: true bools as 77, the
\* bytes of byte arrays complemented, 255 in alignment and padding bytes
Foreign(roles, b) ==
    [j \in 1..Len(b) |->
        CASE roles[j] = "gap" -> 255
          [] roles[j] = "bool" -> (IF b[j] = 0 THEN 0 ELSE 77)
          [] roles[j] = "bytes" -> 255 - b[j]
          [] OTHER -> b[j]]

\* The bytes b with every alignment and padding byte replaced by 0 and
\* every non-zero bool byte by 1
Normalized(roles, b) ==
    [j \in 1..Len(b) |->
        CASE roles[j] = "gap" -> 0
          [] roles[j] = "bool" -> (IF b[j] = 0 THEN 0 ELSE 1)
          [] OTHER -> b[j]]

\* C28: unpack reads no alignment or padding byte, so buffers that differ
\* in these bytes only unpack to the same value; pack(unpack(b)) is b with
\* the alignment and padding bytes 0 and the non-zero bool bytes 1, also
\* inside nested references, and unpack(pack(unpack(b))) = unpack(b)
C28_Normalizes ==
    /\ pc = "packed" =>
          \A roles \in {ByteRoles(Codec)} :
          \A b \in {Foreign(roles, buf)} :
          \A v \in {unpack(Codec, platform, types, b)} :
          \A r \in {pack(Codec, platform, types, v)} :
              /\ Len(roles) = Codec.SIZE
              /\ r = Normalized(roles, b)
              /\ unpack(Codec, platform, types, r) = v
              /\ \A g \in {0, 85} : unpack(Codec, platform, types, Garbled(roles, b, g)) = v
              /\ unpack(Codec, platform, types, Garbled(roles, buf, 255)) = inp
    /\ (pc = "read" /\ res = "Ok") =>
          pack(Codec, platform, types, outp)
              = Normalized(ByteRoles(Codec), SubSeq(slice, 1, Codec.SIZE))

\* C28 witness: a char and two nested references in native mode, packed;
\* the bytes of another producer differ from it in alignment bytes and
\* in bool bytes, and pack(unpack(..)) differs from them
C28_Witness ==
    /\ pc = "packed"
    /\ NativeMode
    /\ format.codes = <<fc_b, Twice("BottomTurtle")>>
    /\ Codec.FIELDS[2].alignment > 0
    /\ \E j \in 1..Len(buf) :
          ByteRoles(Codec)[j] = "gap" /\ Foreign(ByteRoles(Codec), buf)[j] = 255
    /\ \E j \in 1..Len(buf) :
          ByteRoles(Codec)[j] = "bool" /\ Foreign(ByteRoles(Codec), buf)[j] = 77
    /\ Normalized(ByteRoles(Codec), Foreign(ByteRoles(Codec), buf)) = buf

\* The largest element of a non-empty set of numbers
MaxOf(S) == CHOOSE x \in S : \A y \in S : y <= x

\* The largest natural alignment among the materialized leaf elements of
\* codec c, the codecs it refers to being those of env; 1 if it has none
RECURSIVE LeafAlignment(_, _)
LeafAlignment(env, c) ==
    LET leaf(i) ==
            LET k == c.fields[i].fmt.kind
            IN  IF k = "Ident" THEN LeafAlignment(env, env[c.fields[i].fmt.ident])
                ELSE IF k \in {"Bool", "Array"} THEN 1
                ELSE rust_type(platform, env, tipe(c.fields[i], native_types(c.modifier))).width
    IN  MaxOf({1} \cup {leaf(i) : i \in {j \in 1..Len(c.fields) : c.fields[j].materialize}})

\* The offsets at which the alignment correction of a type is looked at
Offsets == 0..16

\* The LowerTurtle "bQh" of the example crate, derived before the target
WithLowerTurtle ==
    types @@ ("LowerTurtle" :>
                 CodecOf("", <<fc_b, code(<<>>, "ULongLong", ""), code(<<>>, "Short", "")>>))

\* The LowestTurtle "i2`LowerTurtle`" of the example crate
LowestTurtle ==
    derive([modifier |-> <<>>, codes |-> <<fc_i, Twice("LowerTurtle")>>],
           platform, WithLowerTurtle)

\* The offset, alignment and size of entry F of a FIELDS table
Layout(F) == <<F.offset, F.alignment, F.size>>

\* "b`Foo`" in native mode, Foo the "<b2i" of the crate docs
CharThenFoo == CodecOf("@", <<fc_b, code(<<>>, "Ident", "Foo")>>)

\* C29: in native mode a nested-reference field is aligned to the largest
\* natural alignment among the materialized leaf elements of the unpacked
\* tuple of the referenced codec (1 if there is none), whatever the packed
\* layout and SIZE of that codec; byte-array and padding fields have
\* natural alignment 1 and alignment correction 0 at every offset
C29_ReferenceAlignment ==
    /\ Derived =>
          \A i \in 1..Len(Codec.fields) :
              LET k == Codec.fields[i].fmt.kind
                  F == Codec.FIELDS[i]
              IN  /\ k \in {"Array", "Pad"} =>
                        /\ NaturalAlignment(i) = 1
                        /\ F.alignment = 0
                        /\ \A n \in Offsets : align(FieldType(i), n) = 0
                  /\ (NativeMode /\ k = "Ident") =>
                        /\ NaturalAlignment(i) = LeafAlignment(types, Referenced(i))
                        /\ i > 1 => F.alignment = Correction(F.offset, LeafAlignment(types, Referenced(i)))
                        /\ \A n \in Offsets :
                              align(FieldType(i), n)
                                  = Correction(n, LeafAlignment(types, Referenced(i)))
    /\ pc = "start" =>
          /\ types["Foo"].SIZE = 9
          /\ \A j \in 1..3 : types["Foo"].FIELDS[j].alignment = 0
          /\ LeafAlignment(types, types["Foo"]) = 4
          /\ Layout(CharThenFoo.FIELDS[2]) = <<1, 3, 12>>
          /\ CharThenFoo.SIZE = 13
          /\ WithLowerTurtle["LowerTurtle"].SIZE = 18
          /\ LeafAlignment(WithLowerTurtle, WithLowerTurtle["LowerTurtle"]) = 8
          /\ Layout(LowestTurtle.FIELDS[2]) = <<4, 4, 22>>
          /\ Layout(LowestTurtle.FIELDS[3]) = <<26, 6, 24>>
          /\ LowestTurtle.SIZE = 50
          /\ types["MostBottomTurtle"].Unpacked # <<>>
          /\ LeafAlignment(types, types["MostBottomTurtle"]) = 1

\* C29 witness: a byte array and two nested references in native mode, the
\* first reference moved from offset 3 to the alignment of the unsigned
\* long of its tuple, the second from the end of the first
C29_Witness ==
    /\ Derived
    /\ NativeMode
    /\ format.codes = <<code(<<3>>, "Array", ""), Twice("BottomTurtle")>>
    /\ Codec.FIELDS[1].alignment = 0
    /\ Codec.FIELDS[2].offset = 3
    /\ Codec.FIELDS[2].alignment = platform.long - 3
    /\ Codec.FIELDS[3].alignment = platform.long - 2
    /\ LeafAlignment(types, types["BottomTurtle"]) = platform.long

(***************************************************************************)
(* Properties of the derive macro, under MacroSpec.                        *)
(***************************************************************************)
\* The macro has run on the declaration
Expanded == pc \in {"aborted", "expanded"}

\* Derive::new returned: text is the format string handed to parse
Collected == Expanded /\ Derive_new(attrs).panic = ""

\* Whether position i of str lies outside every pair of backticks
Outside(str, i) == Cardinality({j \in 1..(i - 1) : str[j] = Backtick}) % 2 = 0

UnknownCharacter(str) ==
    \E i \in 1..Len(str) :
        /\ Outside(str, i)
        /\ str[i] \notin ModifierChars \cup FormatChars \cup Digits \cup Whitespace \cup {Backtick}

UnterminatedReference(str) == ~Outside(str, Len(str) + 1)

EmptyReference(str) ==
    \E i \in 1..(Len(str) - 1) :
        Outside(str, i) /\ str[i] = Backtick /\ str[i + 1] = Backtick

MisplacedModifier(str) ==
    \E i \in 2..Len(str) : Outside(str, i) /\ str[i] \in ModifierChars

SplitRepeat(str) ==
    \E i \in 1..(Len(str) - 1) :
        Outside(str, i) /\ str[i] \in Digits /\ str[i + 1] \in Whitespace

Malformed(str) ==
    \/ UnknownCharacter(str)
    \/ UnterminatedReference(str)
    \/ EmptyReference(str)
    \/ MisplacedModifier(str)
    \/ SplitRepeat(str)

\* str without its whitespace
Unspaced(str) == SelectSeq(str, LAMBDA c : c \notin Whitespace)

\* Whether every whitespace character of str stands between two codes, or
\* between the modifier and a code
SpacedBetweenCodes(str) ==
    /\ ~Malformed(str)
    /\ \E i \in 1..Len(str) : str[i] \in Whitespace
    /\ str[1] \notin Whitespace
    /\ str[Len(str)] \notin Whitespace
    /\ \A i \in 1..Len(str) : str[i] \in Whitespace => Outside(str, i)

\* C21: a format string with an unknown character, an unterminated or empty
\* reference, a modifier behind the first position or whitespace between a
\* repeat count and its character is an error of parse, and derive aborts
\* with "Failed to parse format-string" and no codec; whitespace between
\* codes changes nothing
C21_ParseErrors ==
    Collected =>
        /\ Malformed(text) =>
              /\ ~parse(text, platform).ok
              /\ pc = "aborted"
              /\ res = "Failed to parse format-string"
              /\ Target \notin DOMAIN types
        /\ (SpacedBetweenCodes(text) /\ parse(Unspaced(text), platform).ok) =>
              /\ parse(text, platform) = parse(Unspaced(text), platform)
              /\ format = parse(Unspaced(text), platform).format
              /\ pc = "expanded"
              /\ Codec = derive(format, platform, derive_all(Library, platform, <<>>))

\* C21 witness: "2 i", a space between the repeat count and its character
C21_Witness ==
    /\ pc = "aborted"
    /\ text = <<"2", " ", "i">>
    /\ SplitRepeat(text)
    /\ ~UnknownCharacter(text) /\ ~MisplacedModifier(text) /\ ~UnterminatedReference(text)
    /\ res = "Failed to parse format-string"
    /\ Target \notin DOMAIN types

\* The codecs of the crate before Target is derived
Crate == derive_all(Library, platform, <<>>)

\* The fmt attributes of the declaration that hold a string, in their order
Fragments ==
    SelectSeq(attrs, LAMBDA a : a.meta = "NameValue" /\ a.ident = "fmt" /\ a.lit = "Str")

\* The strings of the fragments one after the other
Concatenated == Flatten([i \in 1..Len(Fragments) |-> Fragments[i].str])

\* C22: the format string that is parsed is the fmt attributes concatenated
\* in declaration order, and the outcome of the macro is that of the one
\* attribute #[fmt = "the concatenated string"]; "<" "2" "i" compiles as
\* "<2i" with SIZE 8
C22_Concatenation ==
    Collected =>
        LET single == derive_input(<<fmt_attr(Concatenated)>>, platform, Crate)
        IN  /\ text = Concatenated
            /\ res = single.res
            /\ format = single.format
            /\ single.codec = <<>> => Target \notin DOMAIN types
            /\ single.codec # <<>> => (pc = "expanded" /\ Codec = single.codec[1])
            /\ text = <<"<", "2", "i">> =>
                  /\ pc = "expanded"
                  /\ format = [modifier |-> <<"LittleEndian">>, codes |-> <<code(<<2>>, "Int", "")>>]
                  /\ Codec.SIZE = 8

\* C22 witness: the fragments "<", "2" and "i" expanded to a codec of 8 bytes
C22_Witness ==
    /\ pc = "expanded"
    /\ attrs = <<fmt_attr(<<"<">>), fmt_attr(<<"2">>), fmt_attr(<<"i">>)>>
    /\ text = <<"<", "2", "i">>
    /\ Codec.modifier = "LittleEndian"
    /\ Len(Codec.fields) = 2
    /\ Codec.SIZE = 8

\* Whether attribute a is a fmt attribute in list form, #[fmt("...")]
ListForm(a) == a.meta = "List" /\ a.ident = "fmt"

\* Whether the first attribute of the declaration that is no well-formed
\* fmt or debug_output attribute is a fmt attribute in list form
ListFormFirst ==
    \E i \in 1..Len(attrs) :
        /\ ListForm(attrs[i])
        /\ Derive_new(SubSeq(attrs, 1, i - 1)).panic = ""

\* C23: a declaration with a fmt attribute in list form is rejected with
\* the panic "fmt attribute does not take a list. Expected ..." (the
\* message up to its first sentence here) and no codec is generated
C23_ListFormRejected ==
    (Expanded /\ ListFormFirst) =>
        /\ pc = "aborted"
        /\ res = "fmt attribute does not take a list."
        /\ Target \notin DOMAIN types

\* The strings of the fragments of the declaration
Words == [i \in 1..Len(Fragments) |-> Fragments[i].str]

IsModifier(str) == Len(str) = 1 /\ str[1] \in ModifierChars

IsDigits(str) == str # <<>> /\ \A i \in 1..Len(str) : str[i] \in Digits

IsSpace(str) == str # <<>> /\ \A i \in 1..Len(str) : str[i] \in Whitespace

IsChar(str) == Len(str) = 1 /\ str[1] \in FormatChars

IsReference(str) ==
    /\ Len(str) >= 3
    /\ str[1] = Backtick
    /\ str[Len(str)] = Backtick
    /\ \A i \in 2..(Len(str) - 1) : str[i] \in IdentChars

IsCode(str) == IsChar(str) \/ IsReference(str)

\* Whether the fragments spell a well-formed format string: a modifier as
\* the first fragment only, then codes, each with the digits of its repeat
\* count right in front of it, and spaces between the codes
WellFormed ==
    \A i \in 1..Len(Words) :
        /\ IsModifier(Words[i]) \/ IsDigits(Words[i]) \/ IsSpace(Words[i]) \/ IsCode(Words[i])
        /\ IsModifier(Words[i]) => i = 1
        /\ IsDigits(Words[i]) =>
              i < Len(Words) /\ (IsDigits(Words[i + 1]) \/ IsCode(Words[i + 1]))

\* The fragments that are codes, in their order
CodeWords == SelectSeq([i \in 1..Len(Words) |-> i], LAMBDA i : IsCode(Words[i]))

\* The digits in front of fragment i
RECURSIVE DigitsBefore(_)
DigitsBefore(i) ==
    IF i > 1 /\ IsDigits(Words[i - 1]) THEN DigitsBefore(i - 1) \o Words[i - 1] ELSE <<>>

RECURSIVE Pow10(_)
Pow10(n) == IF n = 0 THEN 1 ELSE 10 * Pow10(n - 1)

\* The number a string of digits denotes
Decimal(str) == SumSeq([i \in 1..Len(str) |-> to_digit(str[i]) * Pow10(Len(str) - i)])

\* Whether the number a string of digits denotes is at most usize::MAX
FitsUsize(str) ==
    LET sig == SubSeq(str, run_end(str, 1, {"0"}), Len(str))
        max == usize_MAX(platform)
    IN  \/ Len(sig) < Len(max)
        \/ Len(sig) = Len(max) /\ digits_leq(sig, max)

\* What parse returns for a well-formed string apart from the repeat
\* counts: Ok, the modifier of a leading modifier character and no other,
\* and the codes in source order, a reference by its name without backticks
ParsedInOrder ==
    /\ pc = "expanded"
    /\ res = "Ok"
    /\ parse(text, platform).ok
    /\ format = parse(text, platform).format
    /\ format.modifier =
          IF Words # <<>> /\ IsModifier(Words[1])
          THEN <<CASE Words[1][1] = "@" -> "Native"
                   [] Words[1][1] = "=" -> "NativeStandard"
                   [] Words[1][1] = "<" -> "LittleEndian"
                   [] Words[1][1] \in {">", "!"} -> "BigEndian">>
          ELSE <<>>
    /\ Len(format.codes) = Len(CodeWords)
    /\ \A k \in 1..Len(CodeWords) :
          LET w == Words[CodeWords[k]]
          IN  IF IsChar(w)
              THEN format.codes[k].chr = FormatChar(w[1]) /\ format.codes[k].name = ""
              ELSE /\ format.codes[k].chr = "Ident"
                   /\ format.codes[k].name = to_owned(SubSeq(w, 2, Len(w) - 1))

\* C26 as stated: for a well-formed format string parse returns the codes
\* in source order, repeat = Some(n) for the digits of n in front of the
\* character and None without digits, Some(modifier) for a leading modifier
\* character only, and the name of a reference without its backticks
C26_ParseResult ==
    (Collected /\ WellFormed) =>
        /\ ParsedInOrder
        /\ \A k \in 1..Len(CodeWords) :
              LET digits == DigitsBefore(CodeWords[k])
                  repeat == format.codes[k].repeat
              IN  IF digits = <<>> THEN repeat = <<>>
                  ELSE repeat # <<>> /\ repeat[1] = Decimal(digits)

\* C26 amended: as C26, with repeat = Some(n) for digits of a value n up to
\* usize::MAX and None for digits of a greater value
C26_ParseResultFitting ==
    (Collected /\ WellFormed) =>
        /\ ParsedInOrder
        /\ \A k \in 1..Len(CodeWords) :
              LET digits == DigitsBefore(CodeWords[k])
                  repeat == format.codes[k].repeat
              IN  IF digits = <<>> \/ ~FitsUsize(digits) THEN repeat = <<>>
                  ELSE repeat # <<>> /\ repeat[1] = Decimal(digits)

\* C26 witness: "<0" and a reference to Foo parsed to Some(LittleEndian)
\* and the one code of Foo with repeat Some(0)
C26_Witness ==
    /\ pc = "expanded"
    /\ WellFormed
    /\ text = <<"<", "0", Backtick, "F", "o", "o", Backtick>>
    /\ format.modifier = <<"LittleEndian">>
    /\ format.codes = <<code(<<0>>, "Ident", "Foo")>>

\* The code fragment that the digits of fragment i count for
CodeBehind(i) == CHOOSE j \in (i + 1)..Len(Words) :
                    IsCode(Words[j]) /\ \A m \in (i + 1)..(j - 1) : ~IsCode(Words[m])

\* The codes of the format string whose repeat count is above usize::MAX
Oversized == {k \in 1..Len(CodeWords) : ~FitsUsize(DigitsBefore(CodeWords[k]))}

\* The fragments without the digits of the repeat counts above usize::MAX
WithoutOversized ==
    SelectSeq([i \in 1..Len(Words) |-> i],
              LAMBDA i : ~(IsDigits(Words[i]) /\ ~FitsUsize(DigitsBefore(CodeBehind(i)))))

\* C30: a repeat count above usize::MAX is no error; parse returns None for
\* it and the codec is that of the format string without the count: the
\* code stands for one field, materialized unless it is padding, of 1 byte
\* if an array or padding
C30_OversizedRepeat ==
    (Collected /\ WellFormed /\ Oversized # {}) =>
        LET plain == Flatten([j \in 1..Len(WithoutOversized) |-> Words[WithoutOversized[j]]])
            single == derive_input(<<fmt_attr(plain)>>, platform, Crate)
        IN  /\ pc = "expanded"
            /\ res = "Ok"
            /\ format = single.format
            /\ Codec = single.codec[1]
            /\ Len(Codec.fields) = SumSeq([k \in 1..Len(format.codes) |-> FieldCount(format.codes[k])])
            /\ \A k \in Oversized :
                  LET fc == format.codes[k]
                      f == Codec.fields[FirstField(format.codes, k)]
                  IN  /\ fc.repeat = <<>>
                      /\ FieldCount(fc) = 1
                      /\ f.fmt.kind = fc.chr
                      /\ f.materialize = (fc.chr # "Pad")
                      /\ fc.chr \in {"Array", "Pad"} => f.fmt.sz = 1

\* C30 witness: 'i' and 's' with a repeat count of twenty nines, compiled
\* as "is" to an int and an array of one byte
C30_Witness ==
    /\ pc = "expanded"
    /\ attrs = <<fmt_attr(<<"i">>), fmt_attr(HugeRepeat), fmt_attr(<<"s">>)>>
    /\ Oversized = {2}
    /\ format.codes = <<code(<<>>, "Int", ""), code(<<>>, "Array", "")>>
    /\ Len(Codec.Unpacked) = 2
    /\ Codec.Unpacked[2] = [kind |-> "array", signed |-> FALSE, width |-> 1, elems |-> <<>>]
    /\ Codec.SIZE = 5

(***************************************************************************)
(* Properties of streams, under StreamSpec.                                *)
(***************************************************************************)
\* C27: after values v1..vk are written with write_to to an empty stream it
\* holds the k * SIZE bytes pack(v1) .. pack(vk); the read_from calls on it
\* return v1..vk in that order, and with SIZE > 0 the call after them, and
\* no call before, returns an error
C27_Stream ==
    /\ pc \in {"writing", "reading"} =>
          /\ Len(writer.data) = Len(sent) * Codec.SIZE
          /\ writer.data = Flatten([j \in 1..Len(sent) |-> pack(Codec, platform, types, sent[j])])
    /\ pc = "writing" => res \in {"", "Ok"}
    /\ pc = "reading" =>
          /\ \A j \in 1..Len(rcvd) : j <= Len(sent) => rcvd[j] = sent[j]
          /\ res = "Ok" => (outp = rcvd[Len(rcvd)] /\ pos = Len(rcvd) * Codec.SIZE)
          /\ Codec.SIZE > 0 =>
                /\ Len(rcvd) <= Len(sent)
                /\ res # "Ok" => (res = "UnexpectedEof" /\ rcvd = sent)
          /\ Codec.SIZE = 0 => res = "Ok"

\* C27 witness: two different values of "2h" written to the stream, both
\* read back, and the third read_from failed
C27_Witness ==
    /\ pc = "reading"
    /\ format.codes = <<code(<<2>>, "Short", "")>>
    /\ Len(sent) = 2
    /\ sent[1] # sent[2]
    /\ Len(writer.data) = 8
    /\ rcvd = sent
    /\ res = "UnexpectedEof"

====
